---- MODULE Spec2Model ----
(***************************************************************************)
(* relay-util: the dispatch pool (runInGoroutines), the job body of        *)
(* SendRelays with its response classification, the JSON-RPC id and        *)
(* response decoding, and the aggregation loop of LogResults.              *)
(*                                                                         *)
(* Spec          one run: NewRelayUtil, SendRelays, LogResults.            *)
(* SpecClassify  the pure functions (id and response decoding, the job's   *)
(*               classification of one HTTP reply) applied to inputs drawn *)
(*               from bounded sets.                                        *)
(* SpecFair      the runs of at most two executions on at most two        *)
(*               workers, under a fair scheduler.                          *)
(* SpecLog       LogResults applied to the outcomes of a finished run,     *)
(*               drawn from bounded sets.                                  *)
(* SpecHistogram LogResults applied to outcomes of several success bodies *)
(*               and error reasons, in every order.                        *)
(* SpecRerun     a second SendRelays on a Util whose channel is closed.    *)
(* SpecResolve   the Portal version of the Util: URL and key resolution    *)
(*               and the headers of the requests.                          *)
(* SpecSetup     the setup package: first-run setup, the prompt for a new  *)
(*               App ID, and the update of the settings file.              *)
(***************************************************************************)
EXTENDS Integers, Sequences, FiniteSets, TLC

VARIABLES
    u,           \* relay.Util: Body, Executions, Goroutines, GoroutinesConfig, Wait, IsBatch,
                 \* ExecTime, RequestsPerSecond
    mpc,         \* position of the main goroutine
    spawned,     \* loop variable i of the worker-start loop of runInGoroutines
    tasks,       \* number of tokens left in the (closed) tasks channel
    sem,         \* number of permits held in the sem channel
    wpc,         \* position of each worker goroutine
    wloc,        \* locals of the job a worker is running (result, reply, latency)
    counter,     \* atomic.Int32 counter of SendRelays
    bar,         \* progress bar of SendRelays: the number of Increment calls it received
    ResultChan,  \* buffered channel u.ResultChan: the outcomes not yet read
    closed,      \* TRUE once close(u.ResultChan) has run
    agg,         \* locals of LogResults
    httpErrors,  \* history: for each error text, the requests of the run that returned it
    pf           \* SpecClassify, SpecLog: the input under study and what was computed from it

vars ==
    <<u, mpc, spawned, tasks, sem, wpc, wloc, counter, bar, ResultChan, closed, agg, httpErrors, pf>>

runVars ==
    <<u, mpc, spawned, tasks, sem, wpc, wloc, counter, bar, ResultChan, closed, agg, httpErrors>>

(***************************************************************************)
(* Bounds of the model.                                                    *)
(***************************************************************************)
MaxExecutions == 2
MaxGoroutines == 2
MaxDelay == 1
MaxLatency == 1
MaxBatch == 3
MaxIdNum == 7
MaxSamples == 4
MaxSampleLatency == 3

(***************************************************************************)
(* JSON values as they appear on the wire.  Every value has the same       *)
(* fields: k (member name when the value is a member of an object),        *)
(* t (type tag), s (text payload), n (integer payload), kids (elements or  *)
(* members).  "absent" stands for a member that is not on the wire.        *)
(* "bigint" is an integer literal outside the range of Go's int; "float"   *)
(* a number literal that is not an integer literal.                        *)
(***************************************************************************)
JV(t, s, n, kids) == [k |-> "", t |-> t, s |-> s, n |-> n, kids |-> kids]

JAbsent == JV("absent", "", 0, <<>>)

JNull == JV("null", "", 0, <<>>)

JStr(s) == JV("str", s, 0, <<>>)

JInt(n) == JV("int", "", n, <<>>)

JBigInt == JV("bigint", "9223372036854775808", 0, <<>>)

JFloat(s) == JV("float", s, 0, <<>>)

JBool(s) == JV("bool", s, 0, <<>>)

JArr(kids) == JV("arr", "", 0, kids)

JObj(kids) == JV("obj", "", 0, kids)

Member(key, v) == [v EXCEPT !.k = key]

\* The member of object obj named key (the last one, as Go's decoder keeps
\* the last of duplicate members), or JAbsent.
GetMember(obj, key) ==
    LET idx == {j \in 1..Len(obj.kids) : obj.kids[j].k = key}
    IN  IF idx = {} THEN JAbsent
        ELSE obj.kids[CHOOSE j \in idx : \A j2 \in idx : j2 <= j]

Quote(s) == "\"" \o s \o "\""

RECURSIVE JoinText(_, _)

\* json.Marshal of a value that json.Unmarshal stored in an interface{}:
\* nil gives null, a string is quoted, a number is printed, an array and an
\* object are rebuilt from their elements.
RECURSIVE JSONText(_)
JSONText(v) ==
    CASE v.t \in {"absent", "null"} -> "null"
      [] v.t = "str" -> Quote(v.s)
      [] v.t = "int" -> ToString(v.n)
      [] v.t \in {"bigint", "float", "bool"} -> v.s
      [] v.t = "arr" -> "[" \o JoinText(v.kids, FALSE) \o "]"
      [] v.t = "obj" -> "{" \o JoinText(v.kids, TRUE) \o "}"

JoinText(kids, named) ==
    IF kids = <<>> THEN ""
    ELSE LET one == (IF named THEN Quote(kids[1].k) \o ":" ELSE "") \o JSONText(kids[1])
         IN  IF Len(kids) = 1 THEN one
             ELSE one \o "," \o JoinText(Tail(kids), named)

(***************************************************************************)
(* ID: the union-typed JSON-RPC identifier.                                *)
(***************************************************************************)
ZeroID == [string |-> "", number |-> 0, isNumber |-> FALSE]

\* json.Unmarshal(data, &intID) with intID a fresh int: a JSON null leaves
\* the variable at 0 and is no error; an integer literal in range is stored;
\* everything else is an error.
UnmarshalInt(data) ==
    CASE data.t = "null" -> [v |-> 0, ok |-> TRUE]
      [] data.t = "int" -> [v |-> data.n, ok |-> TRUE]
      [] OTHER -> [v |-> 0, ok |-> FALSE]

\* json.Unmarshal(data, &stringID) with stringID a fresh string.
UnmarshalString(data) ==
    CASE data.t = "null" -> [v |-> "", ok |-> TRUE]
      [] data.t = "str" -> [v |-> data.s, ok |-> TRUE]
      [] OTHER -> [v |-> "", ok |-> FALSE]

ID_UnmarshalJSON(i, data) ==
    LET asInt == UnmarshalInt(data)
        asString == UnmarshalString(data)
    IN  IF asInt.ok
        THEN [id |-> [i EXCEPT !.number = asInt.v, !.isNumber = TRUE], err |-> ""]
        ELSE IF asString.ok
        THEN [id |-> [i EXCEPT !.string = asString.v], err |-> ""]
        ELSE [id |-> i, err |-> "error unmarshalling ID: " \o JSONText(data)]

\* A faulty variant of ID.MarshalJSON: a numeric id is emitted as a string.
ID_MarshalJSON_Quoted(i) ==
    Quote(IF i.isNumber THEN ToString(i.number) ELSE i.string)

ID_MarshalJSON(i) ==
    IF i.isNumber THEN ToString(i.number) ELSE Quote(i.string)

(***************************************************************************)
(* Response and RelayError.                                                *)
(***************************************************************************)
ZeroRelayError == [Code |-> 0, Message |-> ""]

ZeroResponse ==
    [nil |-> FALSE, JSONRPC |-> "", ID |-> ZeroID, Result |-> JNull, Error |-> ZeroRelayError]

\* A nil *Response.
NilResponse == [ZeroResponse EXCEPT !.nil = TRUE]

\* Decoding a JSON object into a RelayError: code must be an integer in
\* range, message a string; a missing or null member leaves the zero value.
DecodeRelayError(obj) ==
    LET code == UnmarshalInt(GetMember(obj, "code"))
        message == UnmarshalString(GetMember(obj, "message"))
        codeOK == GetMember(obj, "code").t = "absent" \/ code.ok
        messageOK == GetMember(obj, "message").t = "absent" \/ message.ok
    IN  IF ~codeOK
        THEN [e |-> ZeroRelayError,
              err |-> "json: cannot unmarshal into Go struct field RelayError.code of type int"]
        ELSE IF ~messageOK
        THEN [e |-> ZeroRelayError,
              err |-> "json: cannot unmarshal into Go struct field RelayError.message of type string"]
        ELSE [e |-> [Code |-> code.v, Message |-> message.v], err |-> ""]

\* The members jsonrpc, id and result of a response object, decoded into the
\* fields of Response: the id through ID.UnmarshalJSON (not called when the
\* member is absent), the result into an interface{}.
DecodeCommon(obj) ==
    LET id == IF obj.id.t = "absent" THEN [id |-> ZeroID, err |-> ""]
              ELSE ID_UnmarshalJSON(ZeroID, obj.id)
    IN  [r |-> [ZeroResponse EXCEPT !.JSONRPC = obj.jsonrpc,
                                    !.ID = id.id,
                                    !.Result = IF obj.result.t = "absent" THEN JNull
                                               ELSE obj.result],
         err |-> id.err]

\* A faulty variant of Response.UnmarshalJSON: the case of a bare string is missing.
Response_UnmarshalJSON_NoString(obj) ==
    LET aux == DecodeCommon(obj)
        v == obj.error
    IN  IF aux.err # "" THEN [r |-> NilResponse, err |-> aux.err]
        ELSE CASE v.t \in {"absent", "null"} ->
                    [r |-> [aux.r EXCEPT !.Error = ZeroRelayError], err |-> ""]
               [] v.t = "obj" ->
                    LET relayErr == DecodeRelayError(v)
                    IN  IF relayErr.err # "" THEN [r |-> NilResponse, err |-> relayErr.err]
                        ELSE [r |-> [aux.r EXCEPT !.Error = relayErr.e], err |-> ""]
               [] OTHER ->
                    [r |-> NilResponse, err |-> "unexpected error type: " \o v.t]

\* Response.UnmarshalJSON: the error member is decoded into an interface{}
\* and then switched on its dynamic type.
Response_UnmarshalJSON(obj) ==
    LET aux == DecodeCommon(obj)
        v == obj.error
    IN  IF aux.err # "" THEN [r |-> NilResponse, err |-> aux.err]
        ELSE CASE v.t \in {"absent", "null"} ->
                    [r |-> [aux.r EXCEPT !.Error = ZeroRelayError], err |-> ""]
               [] v.t = "obj" ->
                    LET relayErr == DecodeRelayError(v)
                    IN  IF relayErr.err # "" THEN [r |-> NilResponse, err |-> relayErr.err]
                        ELSE [r |-> [aux.r EXCEPT !.Error = relayErr.e], err |-> ""]
               [] v.t = "str" ->
                    [r |-> [aux.r EXCEPT !.Error = [Code |-> 0, Message |-> v.s]], err |-> ""]
               [] OTHER ->
                    [r |-> NilResponse, err |-> "unexpected error type: " \o v.t]

\* json.Unmarshal of a response object into a Response that has no
\* UnmarshalJSON of its own: the error member is decoded into the RelayError
\* struct, so only an object (or null, or nothing) is accepted.
DecodeResponse(obj) ==
    LET aux == DecodeCommon(obj)
        v == obj.error
    IN  IF aux.err # "" THEN [r |-> NilResponse, err |-> aux.err]
        ELSE CASE v.t \in {"absent", "null"} -> [r |-> aux.r, err |-> ""]
               [] v.t = "obj" ->
                    LET relayErr == DecodeRelayError(v)
                    IN  IF relayErr.err # "" THEN [r |-> NilResponse, err |-> relayErr.err]
                        ELSE [r |-> [aux.r EXCEPT !.Error = relayErr.e], err |-> ""]
               [] OTHER ->
                    [r |-> NilResponse,
                     err |-> "json: cannot unmarshal " \o v.t
                             \o " into Go struct field Response.error of type relay.RelayError"]

(***************************************************************************)
(* HTTP replies.  A reply is the error of HTTPClient.Do or io.ReadAll      *)
(* (err, "" when there is none) and the body read.  A body is invalid JSON *)
(* ("invalid"), null, a response object ("obj": its members jsonrpc, id,   *)
(* result, error), an array of items ("arr": each item a body), or any     *)
(* other JSON value ("other").                                             *)
(***************************************************************************)
Body(t, id, result, error, items) ==
    [t |-> t, jsonrpc |-> "2.0", id |-> id, result |-> result, error |-> error, items |-> items]

BodyOf(t) == Body(t, JAbsent, JAbsent, JAbsent, <<>>)

RespObj(id, result, error) == Body("obj", id, result, error, <<>>)

Reply(err, body) == [err |-> err, body |-> body]

\* makeJSONRPCReq: the reply of the target decoded into one Response.
makeJSONRPCReq(reply) ==
    LET body == reply.body
    IN  IF reply.err # "" THEN [resp |-> NilResponse, err |-> reply.err]
        ELSE CASE body.t = "invalid" ->
                    [resp |-> NilResponse, err |-> "unexpected end of JSON input"]
               [] body.t = "null" -> [resp |-> ZeroResponse, err |-> ""]
               [] body.t = "obj" ->
                    LET d == DecodeResponse(body)
                    IN  IF d.err # "" THEN [resp |-> NilResponse, err |-> d.err]
                        ELSE [resp |-> d.r, err |-> ""]
               [] OTHER ->
                    [resp |-> NilResponse,
                     err |-> "json: cannot unmarshal " \o body.t
                             \o " into Go value of type relay.Response"]

\* One element of the body array decoded into a *Response: null gives a nil
\* pointer, an object a Response, anything else is an error.
DecodeItem(item) ==
    CASE item.t = "null" -> [r |-> NilResponse, err |-> ""]
      [] item.t = "obj" -> DecodeResponse(item)
      [] OTHER ->
            [r |-> NilResponse,
             err |-> "json: cannot unmarshal " \o item.t
                     \o " into Go value of type relay.Response"]

\* makeJSONRPCBatchReq: the reply decoded into a []*Response; with an error
\* the slice returned is nil (no element).
makeJSONRPCBatchReq(reply) ==
    LET body == reply.body
        decoded == [j \in 1..Len(body.items) |-> DecodeItem(body.items[j])]
        bad == {j \in 1..Len(body.items) : decoded[j].err # ""}
    IN  IF reply.err # "" THEN [resp |-> <<>>, err |-> reply.err]
        ELSE CASE body.t = "invalid" ->
                    [resp |-> <<>>, err |-> "unexpected end of JSON input"]
               [] body.t = "null" -> [resp |-> <<>>, err |-> ""]
               [] body.t = "arr" ->
                    IF bad # {}
                    THEN [resp |-> <<>>,
                          err |-> decoded[CHOOSE j \in bad : \A j2 \in bad : j <= j2].err]
                    ELSE [resp |-> [j \in 1..Len(body.items) |-> decoded[j].r], err |-> ""]
               [] OTHER ->
                    [resp |-> <<>>,
                     err |-> "json: cannot unmarshal " \o body.t
                             \o " into Go value of type []*relay.Response"]

(***************************************************************************)
(* json.Marshal of a Response (the struct tags of Response and RelayError: *)
(* result, code and message are omitted when empty; the error struct       *)
(* itself is never omitted) and of a []*Response.                          *)
(***************************************************************************)
MarshalRelayError(e) ==
    "{" \o (IF e.Code # 0 THEN "\"code\":" \o ToString(e.Code) ELSE "")
        \o (IF e.Code # 0 /\ e.Message # "" THEN "," ELSE "")
        \o (IF e.Message # "" THEN "\"message\":" \o Quote(e.Message) ELSE "")
        \o "}"

MarshalResponse(r) ==
    IF r.nil THEN "null"
    ELSE "{\"jsonrpc\":" \o Quote(r.JSONRPC)
         \o ",\"id\":" \o ID_MarshalJSON(r.ID)
         \o (IF r.Result.t \in {"absent", "null"} THEN ""
             ELSE ",\"result\":" \o JSONText(r.Result))
         \o ",\"error\":" \o MarshalRelayError(r.Error) \o "}"

RECURSIVE JoinResponses(_)
JoinResponses(rs) ==
    IF rs = <<>> THEN ""
    ELSE IF Len(rs) = 1 THEN MarshalResponse(rs[1])
    ELSE MarshalResponse(rs[1]) \o "," \o JoinResponses(Tail(rs))

\* A faulty variant of MarshalResponses: the slice starts nil, and a nil slice is
\* serialized as null.
MarshalResponses_NilSlice(rs) ==
    IF rs = <<>> THEN "null" ELSE "[" \o JoinResponses(rs) \o "]"

\* json.Marshal(successfulResponses): the slice is never nil (it starts as
\* []*Response{}), so the text is an array, "[]" when it has no element.
MarshalResponses(rs) == "[" \o JoinResponses(rs) \o "]"

(***************************************************************************)
(* The job of SendRelays: the RelayResult sent on ResultChan for one       *)
(* reply.                                                                  *)
(***************************************************************************)
NullBodyReason == "response body is set to 'null'"

NilResponseReason == "response is nil"

RelayResult(id, err, errReason, successBody, latency) ==
    [ID |-> id, Err |-> err, ErrReason |-> errReason, SuccessBody |-> successBody,
     Latency |-> latency]

\* A faulty variant of the failure paths: the reason is also stored as the
\* success body.
Failure_SetsBody(id, reason) == RelayResult(id, TRUE, reason, reason, 0)

\* The result of a failure path: Err and ErrReason are set, SuccessBody and
\* Latency keep their zero value.
Failure(id, reason) == RelayResult(id, TRUE, reason, "", 0)

\* fmt.Sprintf("code: %d, message: %s", code, message)
ErrorText(e) == "code: " \o ToString(e.Code) \o ", message: " \o e.Message

\* A faulty variant of the non-batch branch: the error code is tested, not the message.
SingleResult_TestsCode(currentRelay, got, latency) ==
    LET response == got.resp
        responseJSON == JSONText(response.Result)
    IN  IF got.err # "" THEN Failure(currentRelay, got.err)
        ELSE IF response.nil THEN Failure(currentRelay, NilResponseReason)
        ELSE IF response.Error.Code # 0 THEN Failure(currentRelay, ErrorText(response.Error))
        ELSE IF responseJSON = "null" THEN Failure(currentRelay, NullBodyReason)
        ELSE RelayResult(currentRelay, FALSE, "", responseJSON, latency)

\* A faulty variant of the non-batch branch: the test for the text "null" is missing.
SingleResult_NoNullTest(currentRelay, got, latency) ==
    LET response == got.resp
        responseJSON == JSONText(response.Result)
    IN  IF got.err # "" THEN Failure(currentRelay, got.err)
        ELSE IF response.nil THEN Failure(currentRelay, NilResponseReason)
        ELSE IF response.Error.Message # "" THEN Failure(currentRelay, ErrorText(response.Error))
        ELSE RelayResult(currentRelay, FALSE, "", responseJSON, latency)

\* A faulty variant of the non-batch branch: the latency is stored before err is tested.
SingleResult_StoresLatencyFirst(currentRelay, got, latency) ==
    LET response == got.resp
        responseJSON == JSONText(response.Result)
    IN  IF got.err # "" THEN RelayResult(currentRelay, TRUE, got.err, "", latency)
        ELSE IF response.nil THEN Failure(currentRelay, NilResponseReason)
        ELSE IF response.Error.Message # "" THEN Failure(currentRelay, ErrorText(response.Error))
        ELSE IF responseJSON = "null" THEN Failure(currentRelay, NullBodyReason)
        ELSE RelayResult(currentRelay, FALSE, "", responseJSON, latency)

\* The non-batch branch of the job, after makeJSONRPCReq has returned got.
SingleResult(currentRelay, got, latency) ==
    LET response == got.resp
        responseJSON == JSONText(response.Result)
    IN  IF got.err # "" THEN Failure(currentRelay, got.err)
        ELSE IF response.nil THEN Failure(currentRelay, NilResponseReason)
        ELSE IF response.Error.Message # "" THEN Failure(currentRelay, ErrorText(response.Error))
        ELSE IF responseJSON = "null" THEN Failure(currentRelay, NullBodyReason)
        ELSE RelayResult(currentRelay, FALSE, "", responseJSON, latency)

\* A faulty variant of the batch branch: the loop does not return at the first element
\* that stops it but goes on, so the last such element decides.
BatchResult_LastStop(currentRelay, got, latency) ==
    LET responses == got.resp
        stop == {j \in 1..Len(responses) :
                    got.err # "" \/ responses[j].nil \/ responses[j].Error.Message # ""}
        last == CHOOSE j \in stop : \A j2 \in stop : j2 <= j
        responseJSON == MarshalResponses(responses)
    IN  IF stop # {}
        THEN IF got.err # "" THEN Failure(currentRelay, got.err)
             ELSE IF responses[last].nil THEN Failure(currentRelay, NilResponseReason)
             ELSE Failure(currentRelay, ErrorText(responses[last].Error))
        ELSE IF responseJSON = "null" THEN Failure(currentRelay, NullBodyReason)
        ELSE RelayResult(currentRelay, FALSE, "", responseJSON, latency)

\* A faulty variant of the batch branch: the first response is not kept in
\* successfulResponses.
BatchResult_DropsFirst(currentRelay, got, latency) ==
    LET responses == got.resp
        stop == {j \in 1..Len(responses) :
                    got.err # "" \/ responses[j].nil \/ responses[j].Error.Message # ""}
        first == CHOOSE j \in stop : \A j2 \in stop : j <= j2
        responseJSON == MarshalResponses(IF responses = <<>> THEN <<>> ELSE Tail(responses))
    IN  IF stop # {}
        THEN IF got.err # "" THEN Failure(currentRelay, got.err)
             ELSE IF responses[first].nil THEN Failure(currentRelay, NilResponseReason)
             ELSE Failure(currentRelay, ErrorText(responses[first].Error))
        ELSE IF responseJSON = "null" THEN Failure(currentRelay, NullBodyReason)
        ELSE RelayResult(currentRelay, FALSE, "", responseJSON, latency)

\* The batch branch of the job, after makeJSONRPCBatchReq has returned got:
\* the loop over the responses returns at the first element for which err is
\* set, the element is nil or the element carries an error message; with no
\* such element (also when there is no element at all) the responses are
\* serialized as the success body.
BatchResult(currentRelay, got, latency) ==
    LET responses == got.resp
        stop == {j \in 1..Len(responses) :
                    got.err # "" \/ responses[j].nil \/ responses[j].Error.Message # ""}
        first == CHOOSE j \in stop : \A j2 \in stop : j <= j2
        responseJSON == MarshalResponses(responses)
    IN  IF stop # {}
        THEN IF got.err # "" THEN Failure(currentRelay, got.err)
             ELSE IF responses[first].nil THEN Failure(currentRelay, NilResponseReason)
             ELSE Failure(currentRelay, ErrorText(responses[first].Error))
        ELSE IF responseJSON = "null" THEN Failure(currentRelay, NullBodyReason)
        ELSE RelayResult(currentRelay, FALSE, "", responseJSON, latency)

\* jobFunc from the request on.
JobResult(isBatch, currentRelay, reply, latency) ==
    IF isBatch THEN BatchResult(currentRelay, makeJSONRPCBatchReq(reply), latency)
    ELSE SingleResult(currentRelay, makeJSONRPCReq(reply), latency)

(***************************************************************************)
(* Configuration and construction.                                         *)
(***************************************************************************)
\* A request body is the sequence of its characters.  "{}" stands for one
\* JSON-RPC request object, "[{}]" for an array of requests.
ObjectBody == <<"{", "}">>

ArrayBody == <<"[", "{", "}", "]">>

\* The bodies of the runs of Spec.
RequestBodies == {ObjectBody, ArrayBody}

\* The bodies NewRelayUtil is applied to in SpecClassify.
ConstructorBodies ==
    { ObjectBody,
      ArrayBody,
      <<" ", "[", "{", "}", "]", "\n">>,   \* an array between white space
      <<"[", "{", "}">>,                   \* starts like an array, is not closed
      <<" ", "[">>,
      <<"{", "}", "[">>,
      <<"1">>,
      <<>> }

WhiteSpace == {" ", "\n"}

\* strings.TrimSpace
RECURSIVE TrimLeft(_)
TrimLeft(b) ==
    IF b # <<>> /\ Head(b) \in WhiteSpace THEN TrimLeft(Tail(b)) ELSE b

RECURSIVE TrimRight(_)
TrimRight(b) ==
    IF b # <<>> /\ b[Len(b)] \in WhiteSpace THEN TrimRight(SubSeq(b, 1, Len(b) - 1)) ELSE b

TrimSpace(b) == TrimRight(TrimLeft(b))

\* strings.HasPrefix(b, prefix) for a prefix of one character
HasPrefix(b, prefix) == b # <<>> /\ Head(b) = prefix

\* json.Valid on the bodies above: white space around the value is allowed;
\* of the texts without it, "{}", "[{}]" and "1" are JSON values.
JSONValid(b) == TrimSpace(b) \in {<<"{", "}">>, <<"[", "{", "}", "]">>, <<"1">>}

Configs ==
    [Body : RequestBodies,
     Executions : -1..MaxExecutions,
     Goroutines : 0..MaxGoroutines,
     Wait : {-1, 0, MaxDelay}]

goroutinesConfig(goroutines, delay) == [goroutines |-> goroutines, delay |-> delay]

\* A faulty variant of getGoroutinesConfig: one worker more than configured.
getGoroutinesConfig_OneMore(goroutines, delay) == goroutinesConfig(goroutines + 1, delay)

getGoroutinesConfig(goroutines, delay) == goroutinesConfig(goroutines, delay)

\* A faulty variant of NewRelayUtil: the body is not trimmed before the prefix test.
NewRelayUtil_NoTrim(config) ==
    [Body |-> config.Body,
     Executions |-> config.Executions,
     Goroutines |-> config.Goroutines,
     Wait |-> config.Wait,
     IsBatch |-> JSONValid(config.Body) /\ HasPrefix(config.Body, "["),
     ExecTime |-> 0,
     RequestsPerSecond |-> [num |-> 0, den |-> 1],
     GoroutinesConfig |-> getGoroutinesConfig(config.Goroutines, config.Wait)]

NewRelayUtil(config) ==
    [Body |-> config.Body,
     Executions |-> config.Executions,
     Goroutines |-> config.Goroutines,
     Wait |-> config.Wait,
     IsBatch |-> JSONValid(config.Body) /\ HasPrefix(TrimSpace(config.Body), "["),
     ExecTime |-> 0,
     RequestsPerSecond |-> [num |-> 0, den |-> 1],
     GoroutinesConfig |-> getGoroutinesConfig(config.Goroutines, config.Wait)]

\* A faulty variant of validateConfig: the delay is not checked.
validateConfig_NoDelay(c) ==
    IF c.goroutines < 1 THEN "goroutines must be greater than 0" ELSE ""

\* validateConfig: the error returned, "" for nil.
validateConfig(c) ==
    IF c.goroutines < 1 THEN "goroutines must be greater than 0"
    ELSE IF c.delay < 0 THEN "delay must be greater than or equal to 0"
    ELSE ""

(***************************************************************************)
(* The replies a job of a run may get, and the time it may measure.        *)
(***************************************************************************)
OkResponse == RespObj(JInt(1), JStr("0x10"), JAbsent)

BadRequest == JObj(<<Member("code", JInt(-32600)), Member("message", JStr("bad request"))>>)

ErrorResponse == RespObj(JInt(1), JAbsent, BadRequest)

Timeout == Reply("context deadline exceeded", BodyOf("invalid"))

\* In either mode one reply makes the job send a success and one a failure
\* (the full range of replies is that of SpecClassify).
RunReplies(isBatch) ==
    IF isBatch
    THEN { Timeout,
           Reply("", Body("arr", JAbsent, JAbsent, JAbsent, <<OkResponse, ErrorResponse>>)) }
    ELSE { Timeout,
           Reply("", OkResponse) }

\* The latency measured is 0 (less than a millisecond) or not.
Latencies == {0, MaxLatency}

Workers == 1..(MaxGoroutines + 1)

\* A faulty variant of Incr: the count of key is set to 1, not incremented.
Incr_Overwrite(m, key) == (key :> 1) @@ m

\* m[key]++ on a map[string]int
Incr(m, key) ==
    IF key \in DOMAIN m THEN [m EXCEPT ![key] = @ + 1] ELSE (key :> 1) @@ m

NoReply == Reply("", BodyOf("none"))

NoResult == RelayResult(0, FALSE, "", "", 0)

NoJob == [currentRelay |-> 0, reply |-> NoReply, latency |-> 0, result |-> NoResult]

NoAgg ==
    [totalRelays |-> 0, successfulRelays |-> 0, failedRelays |-> 0,
     successBodies |-> <<>>, errorReasons |-> <<>>, latencies |-> <<>>,
     totalLatency |-> 0, highestLatency |-> 0, lowestLatency |-> 0,
     averageLatency |-> [nan |-> FALSE, num |-> 0, den |-> 1], p90Latency |-> 0]

NoGot == [resp |-> <<>>, err |-> ""]

PfOf(phase, isBatch, reply, latency) ==
    [phase |-> phase, isBatch |-> isBatch, reply |-> reply, latency |-> latency,
     idres |-> [id |-> ZeroID, err |-> ""], idtext |-> "",
     decoded |-> [r |-> ZeroResponse, err |-> ""],
     got |-> NoGot, result |-> NoResult, results |-> <<>>]

PfOff == PfOf("off", FALSE, NoReply, 0)

(***************************************************************************)
(* The main goroutine: main, SendRelays, runInGoroutines.                  *)
(***************************************************************************)
Init ==
    /\ \E config \in Configs : u = NewRelayUtil(config)
    /\ mpc = "main"
    /\ spawned = 0
    /\ tasks = 0
    /\ sem = 0
    /\ wpc = [w \in Workers |-> "none"]
    /\ wloc = [w \in Workers |-> NoJob]
    /\ counter = 0
    /\ bar = 0
    /\ ResultChan = <<>>
    /\ closed = FALSE
    /\ agg = NoAgg
    /\ httpErrors = <<>>
    /\ pf = PfOff

\* A faulty variant of Main: the test executions == 0 is missing.
Main_NoZeroCheck ==
    /\ mpc = "main"
    /\ mpc' = IF u.Executions < 0 THEN "panic" ELSE "send"
    /\ UNCHANGED <<u, spawned, tasks, sem, wpc, wloc, counter, bar, ResultChan, closed, agg, httpErrors, pf>>

\* main: executions = 0 is refused; make(chan RelayResult, Executions) in
\* NewRelayUtil panics for a negative size; otherwise SendRelays is called.
Main ==
    /\ mpc = "main"
    /\ mpc' = IF u.Executions = 0 THEN "exit"
              ELSE IF u.Executions < 0 THEN "panic"
              ELSE "send"
    /\ UNCHANGED <<u, spawned, tasks, sem, wpc, wloc, counter, bar, ResultChan, closed, agg, httpErrors, pf>>

\* SendRelays up to the call of runInGoroutines, and runInGoroutines up to
\* the worker-start loop: the configuration is validated, then sem and tasks
\* are made, tasks is filled with `executions` tokens and closed.
RunBegin ==
    /\ mpc = "send"
    /\ counter' = 0
    /\ bar' = 0
    /\ IF validateConfig(u.GoroutinesConfig) # ""
       THEN /\ mpc' = "panic"
            /\ UNCHANGED <<tasks, sem, spawned>>
       ELSE /\ mpc' = "spawn"
            /\ sem' = 0
            /\ tasks' = u.Executions
            /\ spawned' = 0
    /\ UNCHANGED <<u, wpc, wloc, ResultChan, closed, agg, httpErrors, pf>>

\* A faulty variant of MoreWorkers: the loop stops one worker early.
MoreWorkers_OneLess(i, c) == i + 1 < c.goroutines

\* The loop condition i < config.goroutines.
MoreWorkers(i, c) == i < c.goroutines

\* wg.Add(1); go func() {...}()
StartWorker ==
    /\ mpc = "spawn"
    /\ MoreWorkers(spawned, u.GoroutinesConfig)
    /\ wpc' = [wpc EXCEPT ![spawned + 1] = "range"]
    /\ mpc' = "sleep"
    /\ UNCHANGED <<u, spawned, tasks, sem, wloc, counter, bar, ResultChan, closed, agg, httpErrors, pf>>

\* <-time.After(config.delay); i++
Sleep ==
    /\ mpc = "sleep"
    /\ spawned' = spawned + 1
    /\ mpc' = "spawn"
    /\ UNCHANGED <<u, tasks, sem, wpc, wloc, counter, bar, ResultChan, closed, agg, httpErrors, pf>>

\* A faulty variant of WaitGroupZero: the wait ends when the first worker exits.
WaitGroupZero_FirstDone == \E w \in Workers : wpc[w] = "done"

\* A faulty variant of WaitGroupZero: wg.Add(1) is missing, the counter is always zero.
WaitGroupZero_NoAdd == TRUE

\* The counter of wg is zero: every worker started (wg.Add(1)) has exited
\* (defer wg.Done()).
WaitGroupZero == \A w \in Workers : wpc[w] \in {"none", "done"}

\* wg.Wait(): returns once every started worker has called wg.Done.
Wait ==
    /\ mpc = "spawn"
    /\ ~MoreWorkers(spawned, u.GoroutinesConfig)
    /\ WaitGroupZero
    /\ mpc' = "returned"
    /\ UNCHANGED <<u, spawned, tasks, sem, wpc, wloc, counter, bar, ResultChan, closed, agg, httpErrors, pf>>

\* The time time.Since(startTime) may give at the end of a run.
ElapsedTimes == {1, 2}

\* float64(u.Executions) / u.ExecTime.Seconds(), kept as a fraction.
Throughput(executions, execTime) == [num |-> executions, den |-> execTime]

\* A faulty variant of Finalize: ExecTime and RequestsPerSecond are computed after
\* close(u.ResultChan).
Finalize_AfterClose ==
    /\ mpc = "returned"
    /\ \E t \in ElapsedTimes :
          u' = [u EXCEPT !.ExecTime = t, !.RequestsPerSecond = Throughput(u.Executions, t)]
    /\ bar' = u.Executions
    /\ closed' = TRUE
    /\ mpc' = "finalized"
    /\ UNCHANGED <<spawned, tasks, sem, wpc, wloc, counter, ResultChan, agg, httpErrors, pf>>

\* SendRelays after runInGoroutines has returned: ExecTime and
\* RequestsPerSecond are computed and the bar is set to Executions and
\* finished.
Finalize ==
    /\ mpc = "returned"
    /\ \E t \in ElapsedTimes :
          u' = [u EXCEPT !.ExecTime = t, !.RequestsPerSecond = Throughput(u.Executions, t)]
    /\ bar' = u.Executions
    /\ mpc' = "finalized"
    /\ UNCHANGED <<spawned, tasks, sem, wpc, wloc, counter, ResultChan, closed, agg, httpErrors, pf>>

\* close(u.ResultChan), the last statement of SendRelays; main then calls
\* LogResults.
Close ==
    /\ mpc = "finalized"
    /\ ~closed
    /\ closed' = TRUE
    /\ mpc' = "log"
    /\ UNCHANGED <<u, spawned, tasks, sem, wpc, wloc, counter, bar, ResultChan, agg, httpErrors, pf>>

(***************************************************************************)
(* The workers of runInGoroutines and the job they run.                    *)
(***************************************************************************)
\* for range tasks: takes a token, or ends the loop (and the worker, with
\* wg.Done) when the closed channel is empty.
WorkerTake(w) ==
    /\ wpc[w] = "range"
    /\ IF tasks > 0
       THEN /\ tasks' = tasks - 1
            /\ wpc' = [wpc EXCEPT ![w] = "acquire"]
       ELSE /\ wpc' = [wpc EXCEPT ![w] = "done"]
            /\ UNCHANGED tasks
    /\ UNCHANGED <<u, mpc, spawned, sem, wloc, counter, bar, ResultChan, closed, agg, httpErrors, pf>>

\* sem <- true: blocks while the channel holds cap(sem) permits.
WorkerAcquire(w) ==
    /\ wpc[w] = "acquire"
    /\ sem < u.GoroutinesConfig.goroutines
    /\ sem' = sem + 1
    /\ wpc' = [wpc EXCEPT ![w] = "job"]
    /\ UNCHANGED <<u, mpc, spawned, tasks, wloc, counter, bar, ResultChan, closed, agg, httpErrors, pf>>

\* A faulty variant of JobStart: the result is sent as soon as it is created,
\* before the request is made.
JobStart_SendsFirst(w) ==
    /\ wpc[w] = "job"
    /\ counter' = counter + 1
    /\ bar' = bar + 1
    /\ wloc' = [wloc EXCEPT ![w] = [NoJob EXCEPT !.currentRelay = counter + 1]]
    /\ ResultChan' = Append(ResultChan, RelayResult(counter + 1, FALSE, "", "", 0))
    /\ wpc' = [wpc EXCEPT ![w] = "http"]
    /\ UNCHANGED <<u, mpc, spawned, tasks, sem, closed, agg, httpErrors, pf>>

\* A faulty variant of JobStart: the progress bar is not incremented.
JobStart_NoProgress(w) ==
    /\ wpc[w] = "job"
    /\ counter' = counter + 1
    /\ wloc' = [wloc EXCEPT ![w] = [NoJob EXCEPT !.currentRelay = counter + 1]]
    /\ wpc' = [wpc EXCEPT ![w] = "http"]
    /\ UNCHANGED <<u, mpc, spawned, tasks, sem, bar, ResultChan, closed, agg, httpErrors, pf>>

\* A faulty variant of JobStart: the counter is read before it is incremented.
JobStart_ReadsBeforeAdd(w) ==
    /\ wpc[w] = "job"
    /\ counter' = counter + 1
    /\ bar' = bar + 1
    /\ wloc' = [wloc EXCEPT ![w] = [NoJob EXCEPT !.currentRelay = counter]]
    /\ wpc' = [wpc EXCEPT ![w] = "http"]
    /\ UNCHANGED <<u, mpc, spawned, tasks, sem, ResultChan, closed, agg, httpErrors, pf>>

\* jobFunc, first part: counter.Add(1), the progress bar is incremented,
\* result.ID is set and the start time is taken.
JobStart(w) ==
    /\ wpc[w] = "job"
    /\ counter' = counter + 1
    /\ bar' = bar + 1
    /\ wloc' = [wloc EXCEPT ![w] = [NoJob EXCEPT !.currentRelay = counter + 1]]
    /\ wpc' = [wpc EXCEPT ![w] = "http"]
    /\ UNCHANGED <<u, mpc, spawned, tasks, sem, ResultChan, closed, agg, httpErrors, pf>>

\* The error makeJSONRPCBatchReq or makeJSONRPCReq returns for a reply.
RequestErr(isBatch, reply) ==
    IF isBatch THEN makeJSONRPCBatchReq(reply).err ELSE makeJSONRPCReq(reply).err

\* makeJSONRPCReq / makeJSONRPCBatchReq returns and the latency is taken.
JobHTTP(w) ==
    /\ wpc[w] = "http"
    /\ \E reply \in RunReplies(u.IsBatch), latency \in Latencies :
          /\ wloc' = [wloc EXCEPT ![w].reply = reply, ![w].latency = latency]
          /\ httpErrors' = IF RequestErr(u.IsBatch, reply) # ""
                           THEN Incr(httpErrors, RequestErr(u.IsBatch, reply))
                           ELSE httpErrors
    /\ wpc' = [wpc EXCEPT ![w] = "classify"]
    /\ UNCHANGED <<u, mpc, spawned, tasks, sem, counter, bar, ResultChan, closed, agg, pf>>

\* A faulty variant of ResultChanCap: the channel is unbuffered.
ResultChanCap_Unbuffered(util) == 0

\* The capacity of ResultChan: make(chan RelayResult, config.Executions).
ResultChanCap(util) == util.Executions

\* jobFunc, last part: the reply is classified and the result is sent on
\* ResultChan (the send blocks while the buffer is full), and jobFunc returns.
JobSend(w) ==
    /\ wpc[w] = "classify"
    /\ Len(ResultChan) < ResultChanCap(u)
    /\ ~closed
    /\ LET result == JobResult(u.IsBatch, wloc[w].currentRelay, wloc[w].reply,
                               wloc[w].latency)
       IN  /\ ResultChan' = Append(ResultChan, result)
           /\ wloc' = [wloc EXCEPT ![w].result = result]
    /\ wpc' = [wpc EXCEPT ![w] = "release"]
    /\ UNCHANGED <<u, mpc, spawned, tasks, sem, counter, bar, closed, agg, httpErrors, pf>>

\* A faulty variant of WorkerRelease: the permit is not given back.
WorkerRelease_KeepsPermit(w) ==
    /\ wpc[w] = "release"
    /\ wloc' = [wloc EXCEPT ![w] = NoJob]
    /\ wpc' = [wpc EXCEPT ![w] = "range"]
    /\ UNCHANGED <<u, mpc, spawned, tasks, sem, counter, bar, ResultChan, closed, agg, httpErrors, pf>>

\* <-sem
WorkerRelease(w) ==
    /\ wpc[w] = "release"
    /\ sem' = sem - 1
    /\ wloc' = [wloc EXCEPT ![w] = NoJob]
    /\ wpc' = [wpc EXCEPT ![w] = "range"]
    /\ UNCHANGED <<u, mpc, spawned, tasks, counter, bar, ResultChan, closed, agg, httpErrors, pf>>

(***************************************************************************)
(* LogResults: the loop over ResultChan.                                   *)
(***************************************************************************)
\* A faulty variant of the loop body of LogResults: totalRelays++ only for a success.
Tally_SuccessOnly(a, result) ==
    IF result.Err
    THEN [a EXCEPT !.failedRelays = @ + 1,
                   !.errorReasons = Incr(@, result.ErrReason)]
    ELSE [a EXCEPT !.totalRelays = @ + 1,
                   !.successfulRelays = @ + 1,
                   !.successBodies = Incr(@, result.SuccessBody),
                   !.latencies = IF result.Latency # 0 THEN Append(@, result.Latency) ELSE @]

\* A faulty variant of the loop body of LogResults: the test Latency != 0 is missing.
Tally_ZeroLatencyToo(a, result) ==
    IF result.Err
    THEN [a EXCEPT !.totalRelays = @ + 1,
                   !.failedRelays = @ + 1,
                   !.errorReasons = Incr(@, result.ErrReason)]
    ELSE [a EXCEPT !.totalRelays = @ + 1,
                   !.successfulRelays = @ + 1,
                   !.successBodies = Incr(@, result.SuccessBody),
                   !.latencies = Append(@, result.Latency)]

\* One iteration of `for result := range u.ResultChan`.
Tally(a, result) ==
    IF result.Err
    THEN [a EXCEPT !.totalRelays = @ + 1,
                   !.failedRelays = @ + 1,
                   !.errorReasons = Incr(@, result.ErrReason)]
    ELSE [a EXCEPT !.totalRelays = @ + 1,
                   !.successfulRelays = @ + 1,
                   !.successBodies = Incr(@, result.SuccessBody),
                   !.latencies = IF result.Latency # 0 THEN Append(@, result.Latency) ELSE @]

LogRead ==
    /\ mpc = "log"
    /\ ResultChan # <<>>
    /\ agg' = Tally(agg, Head(ResultChan))
    /\ ResultChan' = Tail(ResultChan)
    /\ UNCHANGED <<u, mpc, spawned, tasks, sem, wpc, wloc, counter, bar, closed, httpErrors, pf>>

MinInt32 == -2147483647 - 1

MaxInt32 == 2147483647

\* The sum of the samples (totalLatency, an int64).
RECURSIVE SumLatencies(_)
SumLatencies(latencies) ==
    IF latencies = <<>> THEN 0 ELSE Head(latencies) + SumLatencies(Tail(latencies))

\* A faulty variant of HighestLatency: the comparison is reversed.
RECURSIVE HighestLatency_Reversed(_, _)
HighestLatency_Reversed(latencies, highestLatency) ==
    IF latencies = <<>> THEN highestLatency
    ELSE HighestLatency_Reversed(Tail(latencies),
                                 IF Head(latencies) < highestLatency THEN Head(latencies)
                                 ELSE highestLatency)

\* The loop over latencies that keeps the highest and the lowest sample,
\* starting from MinInt32 and MaxInt32.
RECURSIVE HighestLatency(_, _)
HighestLatency(latencies, highestLatency) ==
    IF latencies = <<>> THEN highestLatency
    ELSE HighestLatency(Tail(latencies),
                        IF Head(latencies) > highestLatency THEN Head(latencies)
                        ELSE highestLatency)

\* A faulty variant of LowestLatency: without sample the result is 0.
RECURSIVE LowestLatency_ZeroWhenEmpty(_, _)
LowestLatency_ZeroWhenEmpty(latencies, lowestLatency) ==
    IF latencies = <<>> THEN (IF lowestLatency = MaxInt32 THEN 0 ELSE lowestLatency)
    ELSE LowestLatency_ZeroWhenEmpty(Tail(latencies),
                                     IF Head(latencies) < lowestLatency THEN Head(latencies)
                                     ELSE lowestLatency)

RECURSIVE LowestLatency(_, _)
LowestLatency(latencies, lowestLatency) ==
    IF latencies = <<>> THEN lowestLatency
    ELSE LowestLatency(Tail(latencies),
                       IF Head(latencies) < lowestLatency THEN Head(latencies)
                       ELSE lowestLatency)

\* float64(totalLatency) / float64(len(latencies)): NaN for 0 / 0.
AverageLatency(totalLatency, count) ==
    IF count = 0 THEN [nan |-> TRUE, num |-> 0, den |-> 0]
    ELSE [nan |-> FALSE, num |-> totalLatency, den |-> count]

\* sort.Slice(latencies, less) with less(i, j) = latencies[i] < latencies[j].
RECURSIVE InsertLatency(_, _)
InsertLatency(sorted, x) ==
    IF sorted = <<>> THEN <<x>>
    ELSE IF x < Head(sorted) THEN <<x>> \o sorted
    ELSE <<Head(sorted)>> \o InsertLatency(Tail(sorted), x)

RECURSIVE SortLatencies(_)
SortLatencies(latencies) ==
    IF latencies = <<>> THEN <<>>
    ELSE InsertLatency(SortLatencies(Tail(latencies)), Head(latencies))

\* int(float64(n) * 0.9).  The float64 nearest to 0.9 exceeds 0.9 by less
\* than 2.3e-17 and the product is rounded to nearest, so for every slice
\* length the conversion gives the integer part of 9n/10.
P90Index(n) == (9 * n) \div 10

\* A faulty variant of P90Latency: the sample at p90Index, not at p90Index - 1.
P90Latency_AtIndex(latencies) ==
    IF Len(latencies) > 0
    THEN IF P90Index(Len(latencies)) = 0 THEN latencies[1]
         ELSE latencies[P90Index(Len(latencies)) + 1]
    ELSE 0

\* p90Latency of the sorted slice; the slice index k of the code is the
\* position k + 1 of the sequence.
P90Latency(latencies) ==
    IF Len(latencies) > 0
    THEN IF P90Index(Len(latencies)) = 0 THEN latencies[1]
         ELSE latencies[(P90Index(Len(latencies)) - 1) + 1]
    ELSE 0

\* LogResults after the loop: the statistics of the latencies collected.
LatencyStats(a) ==
    [a EXCEPT !.totalLatency = SumLatencies(a.latencies),
              !.highestLatency = HighestLatency(a.latencies, MinInt32),
              !.lowestLatency = LowestLatency(a.latencies, MaxInt32),
              !.averageLatency = AverageLatency(SumLatencies(a.latencies), Len(a.latencies)),
              !.latencies = SortLatencies(a.latencies),
              !.p90Latency = P90Latency(SortLatencies(a.latencies))]

\* A faulty variant of LogEnd: the loop may end while the channel still holds
\* outcomes.
LogEnd_Early ==
    /\ mpc = "log"
    /\ closed
    /\ agg' = LatencyStats(agg)
    /\ mpc' = "report"
    /\ UNCHANGED <<u, spawned, tasks, sem, wpc, wloc, counter, bar, ResultChan, closed, httpErrors, pf>>

\* The loop ends when the channel is closed and empty, and the rest of
\* LogResults runs.
LogEnd ==
    /\ mpc = "log"
    /\ ResultChan = <<>>
    /\ closed
    /\ agg' = LatencyStats(agg)
    /\ mpc' = "report"
    /\ UNCHANGED <<u, spawned, tasks, sem, wpc, wloc, counter, bar, ResultChan, closed, httpErrors, pf>>

Next ==
    \/ Main
    \/ RunBegin
    \/ StartWorker
    \/ Sleep
    \/ Wait
    \/ Finalize
    \/ Close
    \/ \E w \in Workers : WorkerTake(w)
    \/ \E w \in Workers : WorkerAcquire(w)
    \/ \E w \in Workers : JobStart(w)
    \/ \E w \in Workers : JobHTTP(w)
    \/ \E w \in Workers : JobSend(w)
    \/ \E w \in Workers : WorkerRelease(w)
    \/ LogRead
    \/ LogEnd

Spec == Init /\ [][Next]_vars

\* The runs of one or two executions on one or two workers, without delay.
InitFair ==
    /\ Init
    /\ u.Body \in RequestBodies
    /\ u.Executions \in {1, 2}
    /\ u.Goroutines \in {1, 2}
    /\ u.Wait = 0

\* These runs under a fair scheduler: while some goroutine can take a step
\* (an HTTP call that is pending returns), a step is taken.
SpecFair == InitFair /\ [][Next]_vars /\ WF_vars(Next)

(***************************************************************************)
(* SpecClassify: the decoding and classification functions applied to one  *)
(* reply drawn from the sets below.                                        *)
(***************************************************************************)
IdWire ==
    {JAbsent, JNull, JBigInt, JFloat("1.5"), JBool("true"), JArr(<<>>), JObj(<<>>)}
    \cup {JInt(n) : n \in (0 - MaxIdNum)..MaxIdNum}
    \cup {JStr(s) : s \in {"abc", "7", ""}}

ResultWire ==
    {JAbsent, JNull, JStr("0x10"), JInt(0), JBool("false"),
     JArr(<<JInt(1), JNull>>), JObj(<<Member("hash", JStr("0xab"))>>)}

ErrorWire ==
    {JAbsent, JNull, JStr("boom"), JStr(""), JInt(5), JFloat("1.5"), JBool("true"),
     JArr(<<JStr("boom")>>),
     BadRequest,
     JObj(<<>>),
     JObj(<<Member("code", JInt(5))>>),
     JObj(<<Member("message", JStr("oops"))>>),
     JObj(<<Member("code", JInt(5)), Member("message", JStr(""))>>),
     JObj(<<Member("code", JStr("5")), Member("message", JStr("oops"))>>),
     JObj(<<Member("code", JInt(5)), Member("message", JInt(3))>>)}

BatchItems ==
    {BodyOf("null"), BodyOf("other"),
     OkResponse,
     RespObj(JStr("abc"), JNull, JAbsent),
     ErrorResponse,
     RespObj(JInt(2), JStr("0x11"), JObj(<<Member("code", JInt(1)), Member("message", JStr("oops"))>>)),
     RespObj(JInt(3), JStr("0x12"), JObj(<<Member("code", JInt(5))>>))}

RECURSIVE SeqsUpTo(_, _)
SeqsUpTo(S, n) ==
    IF n = 0 THEN {<<>>}
    ELSE LET shorter == SeqsUpTo(S, n - 1)
         IN  shorter \cup {Append(q, x) : q \in shorter, x \in S}

ClassifyReplies ==
    {Timeout, Reply("", BodyOf("invalid")), Reply("", BodyOf("null")), Reply("", BodyOf("other"))}
    \cup {Reply("", RespObj(id, result, error)) :
             id \in IdWire, result \in ResultWire, error \in ErrorWire}
    \cup {Reply("", Body("arr", JAbsent, JAbsent, JAbsent, items)) :
             items \in SeqsUpTo(BatchItems, MaxBatch)}

InitClassify ==
    /\ \E body \in ConstructorBodies, reply \in ClassifyReplies, latency \in Latencies :
          /\ u = NewRelayUtil([Body |-> body, Executions |-> 1, Goroutines |-> 1,
                               Wait |-> 0])
          /\ pf = PfOf("wire", u.IsBatch, reply, latency)
    /\ mpc = "off"
    /\ spawned = 0
    /\ tasks = 0
    /\ sem = 0
    /\ wpc = [w \in Workers |-> "none"]
    /\ wloc = [w \in Workers |-> NoJob]
    /\ counter = 0
    /\ bar = 0
    /\ ResultChan = <<>>
    /\ closed = FALSE
    /\ agg = NoAgg
    /\ httpErrors = <<>>

\* ID.UnmarshalJSON on the id member of a response object, into a fresh ID.
ApplyIDUnmarshal ==
    /\ pf.phase = "wire"
    /\ pf.reply.err = ""
    /\ pf.reply.body.t = "obj"
    /\ pf.reply.body.id.t # "absent"
    /\ pf' = [pf EXCEPT !.phase = "id",
                        !.idres = ID_UnmarshalJSON(ZeroID, pf.reply.body.id)]
    /\ UNCHANGED runVars

\* ID.MarshalJSON on the ID that was decoded.
ApplyIDMarshal ==
    /\ pf.phase = "id"
    /\ pf.idres.err = ""
    /\ pf' = [pf EXCEPT !.phase = "idout", !.idtext = ID_MarshalJSON(pf.idres.id)]
    /\ UNCHANGED runVars

\* Response.UnmarshalJSON on a response object.
ApplyResponseUnmarshal ==
    /\ pf.phase = "wire"
    /\ pf.reply.err = ""
    /\ pf.reply.body.t = "obj"
    /\ pf' = [pf EXCEPT !.phase = "resp", !.decoded = Response_UnmarshalJSON(pf.reply.body)]
    /\ UNCHANGED runVars

\* The request of the job: makeJSONRPCBatchReq or makeJSONRPCReq.
ApplyRequest ==
    /\ pf.phase = "wire"
    /\ pf' = [pf EXCEPT !.phase = "got",
                        !.got = IF pf.isBatch THEN makeJSONRPCBatchReq(pf.reply)
                                ELSE LET g == makeJSONRPCReq(pf.reply)
                                     IN  [resp |-> <<g.resp>>, err |-> g.err]]
    /\ UNCHANGED runVars

\* The rest of the job: the classification of what the request returned and
\* the send of the result on ResultChan.
ApplyClassify ==
    /\ pf.phase = "got"
    /\ LET result == IF pf.isBatch THEN BatchResult(1, pf.got, pf.latency)
                     ELSE SingleResult(1, [resp |-> pf.got.resp[1],
                                           err |-> pf.got.err], pf.latency)
       IN  /\ pf' = [pf EXCEPT !.phase = "outcome", !.result = result]
           /\ ResultChan' = Append(ResultChan, result)
    /\ UNCHANGED <<u, mpc, spawned, tasks, sem, wpc, wloc, counter, bar, closed, agg, httpErrors>>

NextClassify ==
    \/ ApplyIDUnmarshal
    \/ ApplyIDMarshal
    \/ ApplyResponseUnmarshal
    \/ ApplyRequest
    \/ ApplyClassify

SpecClassify == InitClassify /\ [][NextClassify]_vars

(***************************************************************************)
(* SpecLog: LogResults applied to the outcomes a finished run left in      *)
(* ResultChan.                                                             *)
(***************************************************************************)
SampleLatencies == 0..MaxSampleLatency

\* The outcome of a job that measured the latency l: a failed request, or a
\* response with a result.
LogOutcomes ==
    {JobResult(FALSE, 0, Timeout, l) : l \in SampleLatencies}
    \cup {JobResult(FALSE, 0, Reply("", OkResponse), l) : l \in SampleLatencies}

\* The outcomes in the order they were sent, each with its sequence number.
Numbered(outcomes) == [j \in 1..Len(outcomes) |-> [outcomes[j] EXCEPT !.ID = j]]

\* Runs whose jobs all succeeded, with the latencies measured.
ExampleLatencies ==
    { <<42>>,
      <<10, 20, 30, 40, 50, 60, 70, 80, 90, 100>>,
      <<100, 30, 10, 70, 20, 90, 50, 40, 80, 60>> }

ExampleRuns ==
    { [j \in 1..Len(l) |-> JobResult(FALSE, j, Reply("", OkResponse), l[j])] :
         l \in ExampleLatencies }

LogRuns == {Numbered(q) : q \in SeqsUpTo(LogOutcomes, MaxSamples) \ {<<>>}} \cup ExampleRuns

InitLog ==
    /\ \E results \in LogRuns :
          /\ pf = [PfOff EXCEPT !.phase = "log", !.results = results]
          /\ \E t \in ElapsedTimes :
                u = [NewRelayUtil([Body |-> ObjectBody,
                                   Executions |-> Len(results), Goroutines |-> 1,
                                   Wait |-> 0])
                       EXCEPT !.ExecTime = t,
                              !.RequestsPerSecond = Throughput(Len(results), t)]
          /\ ResultChan = results
          /\ counter = Len(results)
          /\ bar = Len(results)
    /\ mpc = "log"
    /\ closed = TRUE
    /\ spawned = 1
    /\ tasks = 0
    /\ sem = 0
    /\ wpc = [w \in Workers |-> IF w = 1 THEN "done" ELSE "none"]
    /\ wloc = [w \in Workers |-> NoJob]
    /\ agg = NoAgg
    /\ httpErrors = <<>>

NextLog ==
    \/ LogRead
    \/ LogEnd

SpecLog == InitLog /\ [][NextLog]_vars

(***************************************************************************)
(* SpecHistogram: LogResults applied to outcomes of two distinct success   *)
(* bodies and two distinct error reasons, in every order.                  *)
(***************************************************************************)
OtherOkResponse == RespObj(JInt(1), JStr("0x11"), JAbsent)

HistogramOutcomes ==
    { JobResult(FALSE, 0, Timeout, MaxLatency),
      JobResult(FALSE, 0, Reply("", ErrorResponse), MaxLatency),
      JobResult(FALSE, 0, Reply("", OkResponse), MaxLatency),
      JobResult(FALSE, 0, Reply("", OtherOkResponse), MaxLatency) }

HistogramRuns == {Numbered(q) : q \in SeqsUpTo(HistogramOutcomes, MaxSamples) \ {<<>>}}

InitHistogram ==
    /\ \E results \in HistogramRuns :
          /\ pf = [PfOff EXCEPT !.phase = "log", !.results = results]
          /\ \E t \in ElapsedTimes :
                u = [NewRelayUtil([Body |-> ObjectBody,
                                   Executions |-> Len(results), Goroutines |-> 1,
                                   Wait |-> 0])
                       EXCEPT !.ExecTime = t,
                              !.RequestsPerSecond = Throughput(Len(results), t)]
          /\ ResultChan = results
          /\ counter = Len(results)
          /\ bar = Len(results)
    /\ mpc = "log"
    /\ closed = TRUE
    /\ spawned = 1
    /\ tasks = 0
    /\ sem = 0
    /\ wpc = [w \in Workers |-> IF w = 1 THEN "done" ELSE "none"]
    /\ wloc = [w \in Workers |-> NoJob]
    /\ agg = NoAgg
    /\ httpErrors = <<>>

SpecHistogram == InitHistogram /\ [][NextLog]_vars

(***************************************************************************)
(* SpecRerun: SendRelays called again on a Util whose first SendRelays has *)
(* completed, so that u.ResultChan is closed.                              *)
(***************************************************************************)
\* A faulty variant of JobSendClosed: the send succeeds as if the channel were open.
JobSendClosed_Delivers(w) ==
    /\ wpc[w] = "classify"
    /\ closed
    /\ ResultChan' = Append(ResultChan, JobResult(u.IsBatch, wloc[w].currentRelay,
                                                  wloc[w].reply, wloc[w].latency))
    /\ wpc' = [wpc EXCEPT ![w] = "release"]
    /\ UNCHANGED <<u, mpc, spawned, tasks, sem, wloc, counter, bar, closed, agg, httpErrors, pf>>

\* u.ResultChan <- result on the closed channel: the send panics (send on
\* closed channel) whatever the buffer holds, and the panic of a goroutine
\* ends the program; jobFunc does not return and the permit is not released.
JobSendClosed(w) ==
    /\ wpc[w] = "classify"
    /\ closed
    /\ wpc' = [wpc EXCEPT ![w] = "panic"]
    /\ mpc' = "panic"
    /\ UNCHANGED <<u, spawned, tasks, sem, wloc, counter, bar, ResultChan, closed, agg, httpErrors, pf>>

\* close(u.ResultChan) on the closed channel: panics (close of closed
\* channel).
CloseClosed ==
    /\ mpc = "finalized"
    /\ closed
    /\ mpc' = "panic"
    /\ UNCHANGED <<u, spawned, tasks, sem, wpc, wloc, counter, bar, ResultChan, closed, agg, httpErrors, pf>>

\* The configurations with which a first SendRelays returns.
RerunConfigs ==
    [Body : RequestBodies,
     Executions : 0..MaxExecutions,
     Goroutines : 1..MaxGoroutines,
     Wait : {0, MaxDelay}]

\* The outcomes of the first run, when nothing has read them.
FirstRunOutcomes(executions, isBatch) ==
    [j \in 1..executions |->
        JobResult(isBatch, j,
                  Reply("", IF isBatch
                            THEN Body("arr", JAbsent, JAbsent, JAbsent, <<OkResponse>>)
                            ELSE OkResponse),
                  MaxLatency)]

\* The first SendRelays has returned; LogResults has read the outcomes
\* (read) or nothing has.
InitRerun ==
    /\ \E config \in RerunConfigs, t \in ElapsedTimes, read \in BOOLEAN :
          /\ u = [NewRelayUtil(config)
                    EXCEPT !.ExecTime = t,
                           !.RequestsPerSecond = Throughput(config.Executions, t)]
          /\ ResultChan = IF read THEN <<>>
                          ELSE FirstRunOutcomes(u.Executions, u.IsBatch)
          /\ pf = [PfOff EXCEPT !.phase = "rerun", !.results = ResultChan]
          /\ counter = u.Executions
          /\ bar = u.Executions
    /\ mpc = "send"
    /\ closed = TRUE
    /\ spawned = 0
    /\ tasks = 0
    /\ sem = 0
    /\ wpc = [w \in Workers |-> "none"]
    /\ wloc = [w \in Workers |-> NoJob]
    /\ agg = NoAgg
    /\ httpErrors = <<>>

NextRerun ==
    \/ RunBegin
    \/ StartWorker
    \/ Sleep
    \/ Wait
    \/ Finalize
    \/ CloseClosed
    \/ \E w \in Workers : WorkerTake(w)
    \/ \E w \in Workers : WorkerAcquire(w)
    \/ \E w \in Workers : JobStart(w)
    \/ \E w \in Workers : JobHTTP(w)
    \/ \E w \in Workers : JobSendClosed(w)

SpecRerun == InitRerun /\ [][NextRerun]_vars

(***************************************************************************)
(* SpecResolve: the Util of the Portal version (src/unnamed/part_001):     *)
(* setURLStringAndKey with the answers given at its prompts, and the       *)
(* headers makeJSONRPCReq and makeJSONRPCBatchReq attach.  An App ID or a  *)
(* URL is the sequence of its parts; the empty text is <<>>.               *)
(***************************************************************************)
MaxPrompts == 2

EnvProd == "production"

PlanTypeStarter == "starter"

EnvTypes == {EnvProd, "staging"}

PlanTypes == {PlanTypeStarter, "enterprise"}

PortalAppData(id, key) == [ID |-> id, Key |-> key]

\* strings.Contains(text, part)
ContainsText(text, part) ==
    \E j \in 1..(Len(text) - Len(part) + 1) : SubSeq(text, j, j + Len(part) - 1) = part

\* The App IDs the environment may hold: the dummy value written by the
\* first-run setup, or a real one.
ConfiguredAppIDs == {<<"dummy", "_starter_app_id">>, <<"a1b2c3d4">>}

\* What PromptUpdateDummyAppIDs may get from askForEnvVarUpdate: no App ID,
\* a real App ID, or an App ID that again contains "dummy"; with or without
\* a secret key.
PromptAnswers ==
    {PortalAppData(id, key) :
        id \in {<<>>, <<"e5f6a7b8">>, <<"my_", "dummy", "_app">>}, key \in {"", "new_secret"}}

\* The Util of NewRelayUtil before setURLStringAndKey is called; the entry
\* of AppIDs for (env, planType) is data, the others hold real App IDs.
PortalUtil(env, planType, data, overrideURL, local, authorization) ==
    [AppIDs |-> [e \in EnvTypes |-> [t \in PlanTypes |->
                    IF e = env /\ t = planType THEN data
                    ELSE PortalAppData(<<"0f0f0f0f">>, "")]],
     Env |-> env, PlanType |-> planType, Chain |-> "eth-mainnet",
     URL |-> <<>>, SecretKey |-> "",
     OverrideURL |-> overrideURL, Local |-> local,
     AuthorizationOverride |-> authorization]

\* setup.PromptUpdateDummyAppIDs: the next answer; without App ID (or
\* without any answer) the program exits.
PromptUpdateDummyAppIDs(prompts) ==
    IF prompts = <<>> \/ Head(prompts).ID = <<>>
    THEN [exit |-> TRUE, ID |-> <<>>, Key |-> "", prompts |-> prompts]
    ELSE [exit |-> FALSE, ID |-> Head(prompts).ID, Key |-> Head(prompts).Key,
          prompts |-> Tail(prompts)]

\* updateAppIDAndKeyIfDummy on the state s = [u, prompts, exit].
updateAppIDAndKeyIfDummy(s, appID) ==
    IF ContainsText(appID, <<"dummy">>)
    THEN LET got == PromptUpdateDummyAppIDs(s.prompts)
         IN  IF got.exit THEN [updated |-> FALSE, s |-> [s EXCEPT !.exit = TRUE]]
             ELSE [updated |-> TRUE,
                   s |-> [s EXCEPT !.prompts = got.prompts,
                                   !.u.AppIDs[s.u.Env][s.u.PlanType] =
                                       PortalAppData(got.ID, got.Key)]]
    ELSE [updated |-> FALSE, s |-> s]

\* setURLStringAndKey on the state s = [u, prompts, exit]: appID is read
\* before updateAppIDAndKeyIfDummy; after the recursive call the function
\* goes on with its own appID.  The URL is the text of
\* fmt.Sprintf("http://localhost:8080/relay/%s", chain) or of
\* fmt.Sprintf("https://%s.rpc.grove.%s/v1/%s", chain, domain, appID).
RECURSIVE setURLStringAndKey(_)
setURLStringAndKey(s) ==
    IF s.u.OverrideURL # <<>> THEN [s EXCEPT !.u.URL = s.u.OverrideURL]
    ELSE LET appID == s.u.AppIDs[s.u.Env][s.u.PlanType].ID
             upd == updateAppIDAndKeyIfDummy(s, appID)
             after == IF upd.updated THEN setURLStringAndKey(upd.s) ELSE upd.s
             domain == IF after.u.Env = EnvProd THEN "city" ELSE "town"
         IN  IF after.exit THEN after
             ELSE [after EXCEPT
                      !.u.URL = IF after.u.Local
                                THEN <<"http://localhost:8080/relay/", after.u.Chain>>
                                ELSE <<"https://", after.u.Chain, ".rpc.grove.", domain,
                                       "/v1/">> \o appID,
                      !.u.SecretKey = after.u.AppIDs[after.u.Env][after.u.PlanType].Key]

\* req.Header.Set(key, value)
SetHeader(header, key, value) ==
    [k \in DOMAIN header \cup {key} |-> IF k = key THEN value ELSE header[k]]

\* The headers of the request of makeJSONRPCReq (Portal version).
SingleRequestHeader(util) ==
    LET header == SetHeader(<<>>, "Content-Type", "application/json")
    IN  IF util.AuthorizationOverride # ""
        THEN SetHeader(header, "Authorization", util.AuthorizationOverride)
        ELSE IF util.SecretKey # "" THEN SetHeader(header, "Authorization", util.SecretKey)
        ELSE header

\* The headers of the request of makeJSONRPCBatchReq (Portal version).
BatchRequestHeader(util) ==
    LET header == SetHeader(<<>>, "Content-Type", "application/json")
    IN  IF util.OverrideURL = <<>> /\ util.SecretKey # ""
        THEN SetHeader(header, "Authorization", util.SecretKey)
        ELSE header

InitResolve ==
    /\ \E env \in EnvTypes, planType \in PlanTypes, id \in ConfiguredAppIDs,
          key \in {"", "old_secret"}, overrideURL \in {<<>>, <<"http://localhost:3069/v1">>},
          local \in BOOLEAN, authorization \in {"", "Bearer token"},
          prompts \in SeqsUpTo(PromptAnswers, MaxPrompts) :
          /\ u = PortalUtil(env, planType, PortalAppData(id, key), overrideURL, local,
                            authorization)
          /\ pf = [phase |-> "config", configured |-> PortalAppData(id, key),
                   prompts |-> prompts, left |-> prompts, single |-> <<>>, batch |-> <<>>]
    /\ mpc = "off"
    /\ spawned = 0
    /\ tasks = 0
    /\ sem = 0
    /\ wpc = [w \in Workers |-> "none"]
    /\ wloc = [w \in Workers |-> NoJob]
    /\ counter = 0
    /\ bar = 0
    /\ ResultChan = <<>>
    /\ closed = FALSE
    /\ agg = NoAgg
    /\ httpErrors = <<>>

\* NewRelayUtil: util.setURLStringAndKey()
ApplySetURL ==
    /\ pf.phase = "config"
    /\ LET s == setURLStringAndKey([u |-> u, prompts |-> pf.prompts, exit |-> FALSE])
       IN  /\ u' = s.u
           /\ pf' = [pf EXCEPT !.phase = IF s.exit THEN "exit" ELSE "resolved",
                               !.left = s.prompts]
    /\ UNCHANGED <<mpc, spawned, tasks, sem, wpc, wloc, counter, bar, ResultChan, closed, agg,
                   httpErrors>>

\* The request of a job, as makeJSONRPCReq and as makeJSONRPCBatchReq build it.
ApplyRequestHeaders ==
    /\ pf.phase = "resolved"
    /\ pf' = [pf EXCEPT !.phase = "request",
                        !.single = SingleRequestHeader(u),
                        !.batch = BatchRequestHeader(u)]
    /\ UNCHANGED runVars

NextResolve ==
    \/ ApplySetURL
    \/ ApplyRequestHeaders

SpecResolve == InitResolve /\ [][NextResolve]_vars

(***************************************************************************)
(* SpecSetup: the setup package (src/setup/setup.go): createEnvFile,       *)
(* askForEnvVarUpdate with updateEnvFile, and updateEnvValue, each applied *)
(* to the lines the user types.  A text is the sequence of its parts, a    *)
(* line break is the part "\n".                                            *)
(***************************************************************************)
MaxLines == 3

MaxAnswers == 3

\* strings.Split(text, "\n"): at least one line
RECURSIVE SplitLines(_)
SplitLines(text) ==
    LET breaks == {j \in 1..Len(text) : text[j] = "\n"}
    IN  IF breaks = {} THEN <<text>>
        ELSE LET j == CHOOSE b \in breaks : \A c \in breaks : b <= c
             IN  <<SubSeq(text, 1, j - 1)>> \o SplitLines(SubSeq(text, j + 1, Len(text)))

\* strings.Join(lines, "\n")
RECURSIVE JoinLines(_)
JoinLines(lines) ==
    IF lines = <<>> THEN <<>>
    ELSE IF Len(lines) = 1 THEN lines[1]
    ELSE lines[1] \o <<"\n">> \o JoinLines(Tail(lines))

\* strings.HasPrefix(line, prefix)
HasTextPrefix(line, prefix) ==
    Len(line) >= Len(prefix) /\ SubSeq(line, 1, Len(prefix)) = prefix

\* updateEnvValue: the first line starting with key= is replaced; without
\* such a line key=newValue and a line break are appended to the contents.
updateEnvValue(contents, key, newValue) ==
    LET lines == SplitLines(contents)
        hits == {i \in 1..Len(lines) : HasTextPrefix(lines[i], <<key, "=">>)}
    IN  IF hits # {}
        THEN LET i == CHOOSE h \in hits : \A g \in hits : h <= g
             IN  JoinLines([lines EXCEPT ![i] = <<key, "=">> \o newValue])
        ELSE contents \o <<key, "=">> \o newValue \o <<"\n">>

\* The contents a settings file may have: up to MaxLines lines, with and
\* without a line break at the end.
EnvContents ==
    LET EnvLines == {<<>>, <<"A", "=", "1">>, <<"B", "=", "0">>, <<"B", "=", "2">>}
    IN  {JoinLines(lines) : lines \in SeqsUpTo(EnvLines, MaxLines) \ {<<>>}}

SetupOff ==
    /\ u = [Executions |-> 0]
    /\ mpc = "off"
    /\ spawned = 0
    /\ tasks = 0
    /\ sem = 0
    /\ wpc = [w \in Workers |-> "none"]
    /\ wloc = [w \in Workers |-> NoJob]
    /\ counter = 0
    /\ bar = 0
    /\ ResultChan = <<>>
    /\ closed = FALSE
    /\ agg = NoAgg
    /\ httpErrors = <<>>

InitUpdate ==
    /\ \E contents \in EnvContents, key \in {"A", "B", "C"}, value \in {<<"1">>, <<"2">>} :
          pf = [phase |-> "update", contents |-> contents, key |-> key, value |-> value,
                once |-> <<>>, twice |-> <<>>]
    /\ SetupOff

\* updateEnvValue applied to the contents, and again to its result.
ApplyUpdateEnvValue ==
    /\ pf.phase = "update"
    /\ LET once == updateEnvValue(pf.contents, pf.key, pf.value)
       IN  pf' = [pf EXCEPT !.phase = "updated", !.once = once,
                           !.twice = updateEnvValue(once, pf.key, pf.value)]
    /\ UNCHANGED runVars

\* The prompts of createEnvFile: an App ID (required, with a dummy value)
\* and its secret key (optional) for each environment and plan.
envVarPrompts ==
    << [key |-> "PRODUCTION_STARTER_APP_ID", dummy |-> <<"dummy", "_starter_app_id">>,
        required |-> TRUE],
       [key |-> "PRODUCTION_STARTER_KEY", dummy |-> <<>>, required |-> FALSE],
       [key |-> "PRODUCTION_ENTERPRISE_APP_ID", dummy |-> <<"dummy", "_enterprise_app_id">>,
        required |-> TRUE],
       [key |-> "PRODUCTION_ENTERPRISE_KEY", dummy |-> <<>>, required |-> FALSE],
       [key |-> "STAGING_STARTER_APP_ID", dummy |-> <<"dummy", "_staging_starter_app_id">>,
        required |-> TRUE],
       [key |-> "STAGING_STARTER_KEY", dummy |-> <<>>, required |-> FALSE],
       [key |-> "STAGING_ENTERPRISE_APP_ID",
        dummy |-> <<"dummy", "_staging_enterprise_app_id">>, required |-> TRUE],
       [key |-> "STAGING_ENTERPRISE_KEY", dummy |-> <<>>, required |-> FALSE] >>

\* reader.ReadString on the lines typed: the next line and the lines left;
\* at the end of the input the empty text.
ReadString(input) ==
    IF input = <<>> THEN [text |-> <<>>, input |-> <<>>]
    ELSE [text |-> Head(input), input |-> Tail(input)]

\* A faulty variant of PromptStep: the key prompt after a skipped App ID is
\* not skipped.
PromptStep_NeverSkips(i, s) ==
    LET prompt == envVarPrompts[i]
        read == ReadString(s.input)
        value == TrimSpace(read.text)
        asked == [s EXCEPT !.input = read.input,
                           !.asked = Append(@, [prompt |-> i, value |-> value])]
    IN  IF value = <<>> /\ ~prompt.required THEN asked
        ELSE [asked EXCEPT
                 !.file = @ \o <<prompt.key, "=">>
                            \o (IF value = <<>> THEN prompt.dummy ELSE value) \o <<"\n">>]

\* One round of the loop of createEnvFile, for prompt i (counted from 1),
\* on s = [input, file, asked, skipNextKeyPrompt].
PromptStep(i, s) ==
    LET prompt == envVarPrompts[i]
        read == ReadString(s.input)
        value == TrimSpace(read.text)
        asked == [s EXCEPT !.input = read.input,
                           !.asked = Append(@, [prompt |-> i, value |-> value])]
    IN  IF s.skipNextKeyPrompt /\ ~prompt.required
        THEN [s EXCEPT !.skipNextKeyPrompt = FALSE]
        ELSE IF value = <<>> /\ ~prompt.required THEN asked
        ELSE IF value = <<>>
        THEN [asked EXCEPT
                 !.file = @ \o <<prompt.key, "=">> \o prompt.dummy \o <<"\n">>,
                 !.skipNextKeyPrompt =
                     IF i < Len(envVarPrompts) /\ ~envVarPrompts[i + 1].required
                     THEN TRUE ELSE @]
        ELSE [asked EXCEPT !.file = @ \o <<prompt.key, "=">> \o value \o <<"\n">>]

RECURSIVE createEnvFileFrom(_, _)
createEnvFileFrom(i, s) ==
    IF i > Len(envVarPrompts) THEN s ELSE createEnvFileFrom(i + 1, PromptStep(i, s))

\* createEnvFile on the lines typed: the new file is empty, every write
\* succeeds.
createEnvFile(input) ==
    createEnvFileFrom(1, [input |-> input, file |-> <<>>, asked |-> <<>>,
                          skipNextKeyPrompt |-> FALSE])

\* The line typed at each prompt of createEnvFile: empty, blank or a value.
InitCreate ==
    /\ \E input \in [1..Len(envVarPrompts)
                         -> {<<"\n">>, <<" ", "\n">>, <<"abc123", "\n">>}] :
          pf = [phase |-> "create", input |-> input, file |-> <<>>, asked |-> <<>>]
    /\ SetupOff

ApplyCreateEnvFile ==
    /\ pf.phase = "create"
    /\ LET s == createEnvFile(pf.input)
       IN  pf' = [pf EXCEPT !.phase = "created", !.file = s.file, !.asked = s.asked]
    /\ UNCHANGED runVars

\* strings.ToLower on the parts of the answers below
ToLower(text) ==
    [j \in 1..Len(text) |-> IF text[j] = "Yes" THEN "yes"
                            ELSE IF text[j] = "NO" THEN "no" ELSE text[j]]

\* getAppIDAndKeyKeys
getAppIDAndKeyKeys(envStr, planType) ==
    IF envStr = EnvProd
    THEN IF planType = PlanTypeStarter
         THEN [appIDKey |-> "PRODUCTION_STARTER_APP_ID", appKeyKey |-> "PRODUCTION_STARTER_KEY"]
         ELSE [appIDKey |-> "PRODUCTION_ENTERPRISE_APP_ID",
               appKeyKey |-> "PRODUCTION_ENTERPRISE_KEY"]
    ELSE IF planType = PlanTypeStarter
         THEN [appIDKey |-> "STAGING_STARTER_APP_ID", appKeyKey |-> "STAGING_STARTER_KEY"]
         ELSE [appIDKey |-> "STAGING_ENTERPRISE_APP_ID", appKeyKey |-> "STAGING_ENTERPRISE_KEY"]

\* updateEnvFile on s = [file, updates, status, appIDValue, appKeyValue]
\* with the two lines typed at its prompts; reading and writing the file
\* succeed.
updateEnvFile(s, envStr, planType, appIDLine, appKeyLine) ==
    LET keys == getAppIDAndKeyKeys(envStr, planType)
        appIDValue == TrimSpace(appIDLine)
        appKeyValue == TrimSpace(appKeyLine)
        withID == IF appIDValue # <<>>
                  THEN updateEnvValue(s.file, keys.appIDKey, appIDValue) ELSE s.file
        withKey == IF appKeyValue # <<>>
                   THEN updateEnvValue(withID, keys.appKeyKey, appKeyValue) ELSE withID
    IN  [s EXCEPT !.file = withKey, !.updates = @ + 1,
                  !.appIDValue = appIDValue, !.appKeyValue = appKeyValue]

\* askForEnvVarUpdate on the answers typed, each with the two lines typed
\* after it when it is a yes.  After an invalid answer the function calls
\* itself, drops what the call returns and goes round its loop again.  With
\* no answer left it waits at the prompt.
RECURSIVE askForEnvVarUpdate(_, _, _, _)
askForEnvVarUpdate(s, envStr, planType, answers) ==
    IF answers = <<>> THEN [s EXCEPT !.status = "waiting", !.answers = <<>>]
    ELSE LET answer == Head(answers)
             text == TrimSpace(ToLower(answer.text))
         IN  IF text = <<"yes">>
             THEN [updateEnvFile(s, envStr, planType, answer.appID, answer.appKey)
                      EXCEPT !.status = "returned", !.answers = Tail(answers)]
             ELSE IF text = <<"no">>
             THEN [s EXCEPT !.status = "exit", !.answers = Tail(answers)]
             ELSE LET inner == askForEnvVarUpdate(s, envStr, planType, Tail(answers))
                  IN  IF inner.status = "returned"
                      THEN askForEnvVarUpdate(inner, envStr, planType, inner.answers)
                      ELSE inner

\* What the user may type at the yes/no prompt, with the App ID and the key
\* typed after a yes.
AskAnswers ==
    {[text |-> text, appID |-> typed[1], appKey |-> typed[2]] :
        text \in {<<"yes", "\n">>, <<" ", "Yes", "\n">>},
        typed \in {<<<<"\n">>, <<"\n">>>>, <<<<"e5f6a7b8", "\n">>, <<"secret1", "\n">>>>,
                   <<<<"c9d0e1f2", "\n">>, <<"\n">>>>}}
    \cup {[text |-> text, appID |-> <<>>, appKey |-> <<>>] :
             text \in {<<"no", "\n">>, <<"maybe", "\n">>, <<"\n">>}}

\* The settings file is the one createEnvFile writes when every App ID is
\* skipped.
InitAsk ==
    /\ \E envStr \in EnvTypes, planType \in PlanTypes,
          answers \in SeqsUpTo(AskAnswers, MaxAnswers) :
          pf = [phase |-> "ask", envStr |-> envStr, planType |-> planType,
                typed |-> answers, answers |-> answers,
                file |-> createEnvFile(<<>>).file, updates |-> 0, status |-> "asking",
                appIDValue |-> <<>>, appKeyValue |-> <<>>]
    /\ SetupOff

\* PromptUpdateDummyAppIDs: askForEnvVarUpdate(env, planType)
ApplyAskForEnvVarUpdate ==
    /\ pf.phase = "ask"
    /\ LET s == askForEnvVarUpdate(pf, pf.envStr, pf.planType, pf.answers)
       IN  pf' = [s EXCEPT !.phase = "asked"]
    /\ UNCHANGED runVars

InitSetup ==
    \/ InitUpdate
    \/ InitCreate
    \/ InitAsk

NextSetup ==
    \/ ApplyUpdateEnvValue
    \/ ApplyCreateEnvFile
    \/ ApplyAskForEnvVarUpdate

SpecSetup == InitSetup /\ [][NextSetup]_vars

(***************************************************************************)
(* Properties of one run (Spec).                                           *)
(***************************************************************************)
ConfigValid == u.GoroutinesConfig.goroutines >= 1 /\ u.GoroutinesConfig.delay >= 0

\* The workers whose jobFunc has been called and has not returned.
InFlight == {w \in Workers : wpc[w] \in {"http", "classify"}}

\* C1 - Completeness: once SendRelays has returned, every outcome is either
\* still in ResultChan or counted by LogResults, never both and never
\* neither, so that LogResults ends with totalRelays = Executions.
C1_Completeness ==
    /\ mpc \in {"log", "report"} => agg.totalRelays + Len(ResultChan) = u.Executions
    /\ mpc = "report" => agg.totalRelays = u.Executions

C1_Witness ==
    /\ mpc = "report"
    /\ u.Executions >= 2
    /\ u.GoroutinesConfig.goroutines >= 2
    /\ agg.totalRelays = u.Executions
    /\ agg.failedRelays >= 1
    /\ agg.successfulRelays >= 1

\* C2 - Concurrency bound: at no instant are more jobFunc executions in
\* flight than the configured number of goroutines.
C2_ConcurrencyBound == Cardinality(InFlight) <= u.Goroutines

C2_Witness ==
    /\ u.Goroutines >= 2
    /\ Cardinality(InFlight) = u.Goroutines
    /\ tasks = 0

\* C3 - Transport errors are per-request failures: a job whose request
\* returned an error sends a failure carrying the error text, the failure is
\* counted under that text by LogResults, and the run still counts
\* Executions outcomes.
C3_TransportErrorIsFailure ==
    /\ \A w \in Workers :
          (wpc[w] = "release" /\ RequestErr(u.IsBatch, wloc[w].reply) # "")
             => /\ wloc[w].result.Err
                /\ wloc[w].result.ErrReason = RequestErr(u.IsBatch, wloc[w].reply)
    /\ mpc = "report"
          => /\ \A reason \in DOMAIN httpErrors :
                   /\ reason \in DOMAIN agg.errorReasons
                   /\ agg.errorReasons[reason] = httpErrors[reason]
             /\ agg.totalRelays = u.Executions

\* C4 - Config rejection: with goroutines < 1 or delay < 0 the run panics in
\* runInGoroutines; no worker is ever started, no job runs, no request is
\* made and no outcome is produced.
C4_ConfigRejection ==
    ~ConfigValid
       => /\ mpc \in {"main", "exit", "send", "panic"}
          /\ \A w \in Workers : wpc[w] = "none" /\ wloc[w] = NoJob
          /\ counter = 0
          /\ httpErrors = <<>>
          /\ ResultChan = <<>>
          /\ agg = NoAgg

C4_Witness ==
    /\ mpc = "panic"
    /\ u.Executions >= 1
    /\ u.GoroutinesConfig.goroutines >= 1
    /\ u.GoroutinesConfig.delay < 0

\* The sequence numbers carried by the outcomes of the sequence q.
IDsOf(q) == {q[j].ID : j \in 1..Len(q)}

\* runInGoroutines is running: the workers are being started or waited for.
InPool == mpc \in {"spawn", "sleep"}

\* runInGoroutines has returned.
PoolReturned == mpc \in {"returned", "finalized", "log", "report"}

C12_Numbering ==
    /\ (InPool \/ mpc \in {"returned", "finalized"})
          => /\ IDsOf(ResultChan) \cup {wloc[w].currentRelay : w \in InFlight} = 1..counter
             /\ Len(ResultChan) + Cardinality(InFlight) = counter
             /\ counter <= u.Executions
    /\ mpc \in {"returned", "finalized"}
          => /\ counter = u.Executions
             /\ Len(ResultChan) = u.Executions
             /\ IDsOf(ResultChan) = 1..u.Executions
    /\ PoolReturned => counter = u.Executions

C12_OncePerJob ==
    /\ counter' >= counter
    /\ \A w \in Workers :
          (wpc[w] = "job" /\ wpc'[w] = "http")
             => counter' = counter + 1 /\ wloc'[w].currentRelay = counter'
    /\ (\A w \in Workers : ~(wpc[w] = "job" /\ wpc'[w] = "http")) => counter' = counter

\* C12 - Sequence counter: the counter only increases, by one at each job
\* invocation and at nothing else; the sequence numbers of the outcomes sent
\* and of the jobs in flight are 1..counter without duplicate or gap; when
\* runInGoroutines has returned the counter equals Executions and the
\* outcomes in ResultChan carry exactly 1..Executions.
C12_SequenceCounter == []C12_Numbering /\ [][C12_OncePerJob]_vars

C12_Witness ==
    /\ mpc = "returned"
    /\ u.Executions >= 2
    /\ u.GoroutinesConfig.goroutines >= 2
    /\ counter = u.Executions
    /\ ResultChan[1].ID = 2
    /\ ResultChan[2].ID = 1

C13_Returned ==
    PoolReturned
       => /\ \A w \in Workers : wpc[w] \in {"none", "done"} /\ wloc[w] = NoJob
          /\ {w \in Workers : wpc[w] = "done"} = 1..u.GoroutinesConfig.goroutines
          /\ tasks = 0
          /\ sem = 0
          /\ counter = u.Executions
          /\ Len(ResultChan) + agg.totalRelays = u.Executions

\* C13 - Barrier: when runInGoroutines has returned, Executions jobs have
\* been invoked and have returned, the tokens are used up, every worker
\* started has exited, and from then on no worker moves and no job starts.
C13_Barrier ==
    /\ []C13_Returned
    /\ [][PoolReturned => (wpc' = wpc /\ wloc' = wloc /\ counter' = counter /\ tasks' = tasks)]_vars

C13_Witness ==
    /\ mpc = "returned"
    /\ u.Executions >= 2
    /\ u.GoroutinesConfig.goroutines >= 2
    /\ Len(ResultChan) = u.Executions
    /\ \A w \in 1..u.GoroutinesConfig.goroutines : wpc[w] = "done"

\* The workers that have been started.
StartedWorkers == {w \in Workers : wpc[w] # "none"}

C14_OneAtATime ==
    /\ InPool => StartedWorkers = 1..(spawned + (IF mpc = "sleep" THEN 1 ELSE 0))
    /\ PoolReturned
          => /\ spawned = u.GoroutinesConfig.goroutines
             /\ StartedWorkers = 1..u.GoroutinesConfig.goroutines

C14_Steps ==
    /\ StartedWorkers' # StartedWorkers
          => /\ mpc = "spawn" /\ mpc' = "sleep"
             /\ StartedWorkers' = StartedWorkers \cup {spawned + 1}
    /\ (mpc = "sleep" /\ mpc' # mpc) => spawned' = spawned + 1 /\ mpc' = "spawn"
    /\ \A w \in Workers :
          (wpc[w] = "range" /\ tasks = 0) => wpc'[w] \in {"range", "done"}
    /\ InPool => tasks' <= tasks

\* C14 - Staggered start: the workers are started one at a time, worker
\* i + 1 only after the delay that follows the start of worker i has
\* elapsed; runInGoroutines returns only when exactly `goroutines` workers
\* have been started, also when Executions is smaller; a worker that finds
\* the queue empty exits without running a job.
C14_StaggeredStart == []C14_OneAtATime /\ [][C14_Steps]_vars

C14_Witness ==
    /\ mpc = "returned"
    /\ u.Executions = 1
    /\ u.GoroutinesConfig.goroutines = 2
    /\ spawned = 2
    /\ StartedWorkers = {1, 2}

\* ExecTime and RequestsPerSecond have been computed.
ThroughputComputed == u.ExecTime # 0

\* C19 as claimed - Finalization order: elapsed time and throughput are
\* computed only after the outcome channel has been closed and fully
\* consumed.
C19_ComputedAfterConsumption ==
    ThroughputComputed => (closed /\ ResultChan = <<>> /\ agg.totalRelays = u.Executions)

C19_Order ==
    /\ ThroughputComputed
          => /\ PoolReturned
             /\ counter = u.Executions
             /\ Len(ResultChan) + agg.totalRelays = u.Executions
             /\ u.RequestsPerSecond = [num |-> u.Executions, den |-> u.ExecTime]
    /\ mpc = "finalized"
          => /\ ThroughputComputed
             /\ ~closed
             /\ agg.totalRelays = 0
             /\ Len(ResultChan) = u.Executions
    /\ closed => ThroughputComputed
    /\ agg.totalRelays > 0 => closed

\* C19 - Finalization order: elapsed time and throughput (Executions over
\* the elapsed time) are computed once, when runInGoroutines has returned
\* and every outcome is in the channel, before the channel is closed and
\* before any outcome is consumed; the channel is closed after that and
\* LogResults reads it only then.
C19_FinalizationOrder ==
    /\ []C19_Order
    /\ [][ThroughputComputed => u' = u]_vars

C19_Witness ==
    /\ mpc = "finalized"
    /\ u.Executions = 2
    /\ u.RequestsPerSecond = [num |-> 2, den |-> 1]
    /\ ~closed
    /\ Len(ResultChan) = 2
    /\ agg.totalRelays = 0

(***************************************************************************)
(* Properties of the decoding and classification functions (SpecClassify). *)
(***************************************************************************)
\* The response the non-batch request returned.
Response1 == pf.got.resp[1]

Classified == pf.phase = "outcome"

SingleParsed == Classified /\ ~pf.isBatch /\ pf.got.err = "" /\ ~Response1.nil

\* C5 - Single-response protocol error: a parsed response with a non-empty
\* error message is a failure with reason "code: <code>, message: <message>",
\* also when a result is present; with an empty message the outcome is no
\* protocol error (it is a success or the null-result failure).
C5_SingleProtocolError ==
    /\ SingleParsed
          => IF Response1.Error.Message # ""
             THEN /\ pf.result.Err
                  /\ pf.result.SuccessBody = ""
                  /\ pf.result.ErrReason =
                        "code: " \o ToString(Response1.Error.Code) \o ", message: "
                            \o Response1.Error.Message
             ELSE pf.result.ErrReason \in {"", "response body is set to 'null'"}
    /\ (SingleParsed /\ pf.reply.body.t = "obj" /\ pf.reply.body.error = BadRequest)
          => pf.result.ErrReason = "code: -32600, message: bad request"

C5_Witness ==
    /\ SingleParsed
    /\ pf.reply.body.error = BadRequest
    /\ pf.reply.body.result = JStr("0x10")
    /\ pf.result.Err
    /\ pf.result.ErrReason = "code: -32600, message: bad request"

\* C6 - Null result: a parsed response without a protocol error is the
\* failure "response body is set to 'null'" when its result is absent or
\* null, and otherwise a success whose body is the JSON text of the result.
C6_NullResult ==
    /\ (SingleParsed /\ Response1.Error.Message = "")
          => IF Response1.Result.t \in {"absent", "null"}
             THEN /\ pf.result.Err
                  /\ pf.result.ErrReason = "response body is set to 'null'"
                  /\ pf.result.SuccessBody = ""
             ELSE /\ ~pf.result.Err
                  /\ pf.result.ErrReason = ""
                  /\ pf.result.SuccessBody = JSONText(Response1.Result)
    /\ (SingleParsed /\ Response1.Error.Message = "" /\ pf.reply.body.t = "obj")
          => /\ pf.reply.body.result = JStr("0x10") => pf.result.SuccessBody = "\"0x10\""
             /\ pf.reply.body.result = JInt(0) => pf.result.SuccessBody = "0"
             /\ pf.reply.body.result \in {JAbsent, JNull} => pf.result.Err

C6_Witness ==
    /\ SingleParsed
    /\ pf.reply.body.t = "obj"
    /\ pf.reply.body.result = JNull
    /\ pf.reply.body.error = JObj(<<Member("code", JInt(5))>>)
    /\ pf.result.Err
    /\ pf.result.ErrReason = NullBodyReason

BatchParsed == Classified /\ pf.isBatch /\ pf.got.err = ""

\* The positions of the response array whose item carries an error message.
ErrorItems ==
    {j \in 1..Len(pf.got.resp) : ~pf.got.resp[j].nil /\ pf.got.resp[j].Error.Message # ""}

FirstErrorItem == CHOOSE j \in ErrorItems : \A j2 \in ErrorItems : j <= j2

FirstErrorText ==
    "code: " \o ToString(pf.got.resp[FirstErrorItem].Error.Code) \o ", message: "
        \o pf.got.resp[FirstErrorItem].Error.Message

\* C7 as claimed - Batch all-or-nothing: with an item carrying an error
\* message, the outcome is a failure without success body whose reason is
\* the error text of the first such item.
C7_ReasonIsFirstError ==
    (BatchParsed /\ ErrorItems # {})
       => /\ pf.result.Err
          /\ pf.result.SuccessBody = ""
          /\ pf.result.ErrReason = FirstErrorText

\* C7 - Batch all-or-nothing: with an item carrying an error message, the
\* outcome is a failure without success body; its reason is the error text
\* of the first such item, unless a null item precedes that item in the
\* array, in which case the reason is "response is nil".
C7_BatchAllOrNothing ==
    (BatchParsed /\ ErrorItems # {})
       => /\ pf.result.Err
          /\ pf.result.SuccessBody = ""
          /\ pf.result.ErrReason =
                IF \E j \in 1..(FirstErrorItem - 1) : pf.got.resp[j].nil
                THEN "response is nil"
                ELSE FirstErrorText

C7_Witness ==
    /\ BatchParsed
    /\ Len(pf.got.resp) = 3
    /\ ErrorItems = {2, 3}
    /\ ~pf.got.resp[1].nil
    /\ pf.got.resp[2].Error # pf.got.resp[3].Error
    /\ pf.result.Err
    /\ pf.result.ErrReason = FirstErrorText

WireID == pf.reply.body.id

\* C8 as claimed - ID round-trip: every integer id on the wire is decoded
\* and re-emitted as the same integer, every string id as the same string.
C8_EveryIntegerRoundTrips ==
    /\ (pf.phase \in {"id", "idout"} /\ WireID.t \in {"int", "bigint", "str"})
          => pf.idres.err = ""
    /\ (pf.phase = "idout" /\ WireID.t = "int") => pf.idtext = ToString(WireID.n)
    /\ (pf.phase = "idout" /\ WireID.t = "bigint") => pf.idtext = WireID.s
    /\ (pf.phase = "idout" /\ WireID.t = "str") => pf.idtext = "\"" \o WireID.s \o "\""

\* C8 - ID round-trip: every integer id on the wire that is in the range of
\* Go's int is decoded and re-emitted as the same integer (not a string),
\* and every string id, also a string of digits, as the same string.
C8_IDRoundTrip ==
    /\ (pf.phase \in {"id", "idout"} /\ WireID.t \in {"int", "str"}) => pf.idres.err = ""
    /\ (pf.phase = "idout" /\ WireID.t = "int")
          => pf.idres.id.isNumber /\ pf.idtext = ToString(WireID.n)
    /\ (pf.phase = "idout" /\ WireID.t = "str")
          => ~pf.idres.id.isNumber /\ pf.idtext = "\"" \o WireID.s \o "\""
    /\ (pf.phase = "idout" /\ WireID = JInt(7)) => pf.idtext = "7"
    /\ (pf.phase = "idout" /\ WireID = JStr("7")) => pf.idtext = "\"7\""

C8_Witness ==
    /\ pf.phase = "idout"
    /\ WireID = JInt(7)
    /\ pf.idres.id.isNumber
    /\ pf.idtext = "7"

\* C9 - ID type strictness: an id that is neither an integer nor a string on
\* the wire makes ID.UnmarshalJSON return an error, and the response fails
\* to parse.
C9_IDTypeStrictness ==
    /\ (pf.phase = "id" /\ WireID.t \in {"null", "bool", "obj", "arr", "float"})
          => pf.idres.err # ""
    /\ (pf.phase = "got" /\ ~pf.isBatch /\ pf.reply.err = "" /\ pf.reply.body.t = "obj"
           /\ WireID.t \in {"null", "bool", "obj", "arr", "float"})
          => pf.got.err # ""

WireError == pf.reply.body.error

\* The error object on the wire has the members of RelayError with their
\* types: an integer code (or none), a string message (or none).
TypedErrorObject ==
    /\ WireError.t = "obj"
    /\ GetMember(WireError, "code").t \in {"absent", "int"}
    /\ GetMember(WireError, "message").t \in {"absent", "str"}

LeadsWithBracket(b) ==
    \E j \in 1..Len(b) : b[j] = "[" /\ \A i \in 1..(j - 1) : b[i] \in {" ", "\n"}

\* C17 as claimed - Batch detection: the run is in batch mode if and only if
\* the body, white space aside, starts with "["; nothing else decides.
C17_PrefixAloneDecides == u.IsBatch <=> LeadsWithBracket(u.Body)

\* The body is a JSON array, possibly between white space.
IsJSONArray(b) ==
    \E lo \in 1..Len(b), hi \in 1..Len(b) :
       /\ \A i \in 1..Len(b) : (i < lo \/ i > hi) => b[i] \in {" ", "\n"}
       /\ SubSeq(b, lo, hi) = <<"[", "{", "}", "]">>

\* C17 - Batch detection: the run is in batch mode if and only if the body
\* is valid JSON and, white space aside, starts with "[", that is, if and
\* only if the body is a JSON array; a body that starts with "[" and is not
\* valid JSON is handled in single mode.
C17_BatchDetection ==
    /\ u.IsBatch <=> IsJSONArray(u.Body)
    /\ u.IsBatch => LeadsWithBracket(u.Body)
    /\ u.Body = <<" ", "[", "{", "}", "]", "\n">> => u.IsBatch
    /\ u.Body = <<"[", "{", "}">> => ~u.IsBatch
    /\ Classified => pf.isBatch = u.IsBatch

C17_Witness ==
    /\ Classified
    /\ u.Body = <<" ", "[", "{", "}", "]", "\n">>
    /\ u.IsBatch
    /\ pf.isBatch
    /\ Len(pf.got.resp) = 2

\* The texts t[1], ..., t[n] separated by commas.
RECURSIVE Commas(_)
Commas(t) ==
    IF t = <<>> THEN ""
    ELSE IF Len(t) = 1 THEN t[1]
    ELSE t[1] \o "," \o Commas(Tail(t))

NilItems == {j \in 1..Len(pf.got.resp) : pf.got.resp[j].nil}

\* C18 as claimed - Batch success body: when no item of the response array
\* carries an error, the outcome is a success whose body is the JSON array of
\* the results of the items, in response order.
C18_BodyIsResults ==
    (BatchParsed /\ ErrorItems = {})
       => /\ ~pf.result.Err
          /\ pf.result.SuccessBody =
                "[" \o Commas([j \in 1..Len(pf.got.resp) |->
                                  JSONText(pf.got.resp[j].Result)]) \o "]"

\* The JSON object of an item of the response array that carries no error
\* message: its jsonrpc and id, its result unless null, and its error object
\* (empty, or with the code alone).
ItemObjectText(item) ==
    "{\"jsonrpc\":\"" \o item.JSONRPC \o "\",\"id\":"
       \o (IF item.ID.isNumber THEN ToString(item.ID.number)
           ELSE "\"" \o item.ID.string \o "\"")
       \o (IF item.Result.t \in {"absent", "null"} THEN ""
           ELSE ",\"result\":" \o JSONText(item.Result))
       \o ",\"error\":{"
       \o (IF item.Error.Code = 0 THEN "" ELSE "\"code\":" \o ToString(item.Error.Code))
       \o "}}"

\* C18 - Batch success body: when no item of the response array is null or
\* carries an error message, the outcome is a success with the latency
\* measured whose body is the JSON array of the whole response objects
\* (jsonrpc, id, result, error), in response order, not of their results.
C18_BatchSuccessBody ==
    /\ (BatchParsed /\ ErrorItems = {} /\ NilItems = {})
          => /\ ~pf.result.Err
             /\ pf.result.ErrReason = ""
             /\ pf.result.Latency = pf.latency
             /\ pf.result.SuccessBody =
                   "[" \o Commas([j \in 1..Len(pf.got.resp) |->
                                     ItemObjectText(pf.got.resp[j])]) \o "]"
    /\ (BatchParsed /\ pf.reply.body.t = "arr"
           /\ pf.reply.body.items = <<OkResponse, RespObj(JStr("abc"), JNull, JAbsent)>>)
          => pf.result.SuccessBody =
                "[{\"jsonrpc\":\"2.0\",\"id\":1,\"result\":\"0x10\",\"error\":{}},"
                   \o "{\"jsonrpc\":\"2.0\",\"id\":\"abc\",\"error\":{}}]"

C18_Witness ==
    /\ BatchParsed
    /\ pf.reply.body.t = "arr"
    /\ pf.reply.body.items = <<OkResponse, RespObj(JStr("abc"), JNull, JAbsent)>>
    /\ ~pf.result.Err
    /\ pf.latency = MaxLatency
    /\ pf.result.Latency = MaxLatency

\* C16 as claimed - Latency of a failed request: when the request of the job
\* returned an error, the latency of the outcome is the time measured.
C16_FailureLatencyIsElapsed ==
    (Classified /\ pf.got.err # "") => pf.result.Latency = pf.latency

\* C16 - Latency of a failed request: every failure outcome, in particular
\* the one of a job in single mode whose request returned an error, has
\* latency 0, whatever time was measured; the time measured is stored in
\* success outcomes only.
C16_FailureLatencyZero ==
    /\ (Classified /\ pf.result.Err) => pf.result.Latency = 0
    /\ (Classified /\ ~pf.isBatch /\ pf.got.err # "")
          => /\ pf.result.Err
             /\ pf.result.ErrReason = pf.got.err
             /\ pf.result.Latency = 0
    /\ (Classified /\ ~pf.result.Err) => pf.result.Latency = pf.latency

C16_Witness ==
    /\ Classified
    /\ ~pf.isBatch
    /\ pf.reply = Timeout
    /\ pf.latency = MaxLatency
    /\ pf.result.Err
    /\ pf.result.ErrReason = "context deadline exceeded"
    /\ pf.result.Latency = 0

(***************************************************************************)
(* Properties of LogResults (SpecLog).                                     *)
(***************************************************************************)
\* The outcomes LogResults has read so far.
Consumed == SubSeq(pf.results, 1, Len(pf.results) - Len(ResultChan))

IsSample(r) == ~r.Err /\ r.Latency # 0

\* The latencies of the outcomes read that are successes with a non-zero
\* latency, in the order read.
SamplesRead ==
    LET kept == SelectSeq(Consumed, IsSample)
    IN  [j \in 1..Len(kept) |-> kept[j].Latency]

\* The number of samples of the sequence q that are less than v / at most v.
Below(q, v) == Cardinality({j \in 1..Len(q) : q[j] < v})

AtMost(q, v) == Cardinality({j \in 1..Len(q) : q[j] <= v})

\* v is the sample at 0-based position k of q sorted ascending.
IsAtSortedPosition(q, k, v) == Below(q, v) <= k /\ k < AtMost(q, v)

Reported == mpc = "report"

\* C11 - p90 rule: with count >= 1 samples and index = floor(0.9 * count),
\* the p90 reported is the smallest sample when index = 0 and otherwise the
\* sample at 0-based position index - 1 of the samples sorted ascending;
\* [42] gives 42 and [10, 20, ..., 100] gives 90.
C11_P90Rule ==
    (Reported /\ Len(SamplesRead) >= 1)
       => LET count == Len(SamplesRead)
              index == (9 * count) \div 10
          IN  /\ index = 0 => \A j \in 1..count : agg.p90Latency <= SamplesRead[j]
              /\ index = 0 => IsAtSortedPosition(SamplesRead, 0, agg.p90Latency)
              /\ index # 0 => IsAtSortedPosition(SamplesRead, index - 1, agg.p90Latency)
              /\ SamplesRead = <<42>> => agg.p90Latency = 42
              /\ (count = 10 /\ \A j \in 1..10 : AtMost(SamplesRead, 10 * j) = j)
                    => agg.p90Latency = 90

C11_Witness ==
    /\ Reported
    /\ SamplesRead = <<100, 30, 10, 70, 20, 90, 50, 40, 80, 60>>
    /\ agg.p90Latency = 90

\* The number of times v occurs in the sequence q.
Occurrences(q, v) == Cardinality({j \in 1..Len(q) : q[j] = v})

\* C15 - Latency samples: the latencies LogResults collects are exactly
\* those of the outcomes read that are successes with a non-zero latency;
\* the highest, the lowest, the total and the p90 are taken from these
\* samples; there are never more samples than successes.
C15_LatencySamples ==
    /\ mpc = "log" => agg.latencies = SamplesRead
    /\ Reported
          => /\ Len(agg.latencies) = Len(SamplesRead)
             /\ \A v \in 0..100 : Occurrences(agg.latencies, v) = Occurrences(SamplesRead, v)
             /\ agg.averageLatency.den = Len(SamplesRead)
    /\ (Reported /\ SamplesRead # <<>>)
          => /\ Below(SamplesRead, agg.lowestLatency) = 0
             /\ Occurrences(SamplesRead, agg.lowestLatency) >= 1
             /\ AtMost(SamplesRead, agg.highestLatency) = Len(SamplesRead)
             /\ Occurrences(SamplesRead, agg.highestLatency) >= 1
             /\ Occurrences(SamplesRead, agg.p90Latency) >= 1
    /\ Len(agg.latencies) <= agg.successfulRelays
    /\ Len(agg.latencies) =
          Cardinality({j \in 1..Len(Consumed) : ~Consumed[j].Err /\ Consumed[j].Latency # 0})

C15_Witness ==
    /\ Reported
    /\ agg.failedRelays = 1
    /\ agg.successfulRelays = 3
    /\ \E j \in 1..Len(pf.results) : ~pf.results[j].Err /\ pf.results[j].Latency = 0
    /\ agg.latencies = <<1, 2>>
    /\ SamplesRead = <<2, 1>>

(***************************************************************************)
(* Properties of a second SendRelays on the same Util (SpecRerun).         *)
(***************************************************************************)
\* C20 - No re-run: after a completed SendRelays the channel stays closed; a
\* second SendRelays on the same Util adds no outcome to the channel and
\* never returns (its first send, or its close, panics), so LogResults is
\* never reached again.
C20_NoRerun ==
    /\ closed
    /\ ResultChan = pf.results
    /\ mpc \in {"send", "spawn", "sleep", "returned", "finalized", "panic"}
    /\ \A w \in Workers : wpc[w] \notin {"release"}
    /\ agg = NoAgg
    /\ mpc \in {"returned", "finalized"} => u.Executions = 0

C20_Witness ==
    /\ mpc = "panic"
    /\ u.Executions = 2
    /\ counter >= 1
    /\ \E w \in Workers : wpc[w] = "panic"
    /\ Len(pf.results) = 2
    /\ ResultChan = pf.results

(***************************************************************************)
(* Properties of the run (Spec): progress, termination, the channel.       *)
(***************************************************************************)
\* The workers whose request has been issued and has not completed.
RequestPending == {w \in Workers : wpc[w] = "http"}

\* The number of jobs whose request has completed.
RequestsCompleted == counter - Cardinality(RequestPending)

\* C21 as stated - the notification of a job is not issued before that
\* job's request has completed: the bar never counts more notifications than
\* requests have completed.
C21_NotifiedAfterRequest ==
    (InPool \/ mpc = "returned") => bar <= RequestsCompleted

\* C21 - Progress notification: the progress bar is incremented once per
\* started job, before the job's request is sent: while the pool runs the
\* bar counts exactly the jobs started (those in flight and those whose
\* outcome has been sent), a job whose request is pending has already been
\* notified, and when the pool has returned the bar has received exactly
\* Executions notifications.
C21_ProgressNotification ==
    /\ (InPool \/ mpc = "returned")
          => /\ bar = Len(ResultChan) + Cardinality(InFlight)
             /\ bar = counter
    /\ \A w \in RequestPending : wloc[w].currentRelay <= bar
    /\ (PoolReturned /\ ConfigValid) => bar = u.Executions

C21_Witness ==
    /\ mpc = "returned"
    /\ u.Executions = 2
    /\ bar = 2
    /\ Len(ResultChan) = 2

\* C22 - Executions bound: with executions < 1 the run stops in main, by
\* the exit of the test executions == 0 or by the panic of the channel
\* construction for a negative size, before SendRelays is called: no worker
\* is started, no job runs, no request is made, and LogResults is reached
\* only by runs of at least one execution, so it never reports a total of 0.
C22_ExecutionsBound ==
    /\ u.Executions < 1
          => /\ mpc \in {"main", "exit", "panic"}
             /\ spawned = 0
             /\ \A w \in Workers : wpc[w] = "none" /\ wloc[w] = NoJob
             /\ counter = 0
             /\ httpErrors = <<>>
             /\ ResultChan = <<>>
             /\ agg = NoAgg
    /\ mpc \in {"log", "report"} => u.Executions >= 1
    /\ mpc = "report" => agg.totalRelays >= 1

C22_Witness ==
    /\ u.Executions < 0
    /\ ConfigValid
    /\ mpc = "panic"
    /\ spawned = 0

\* C23 - Aggregator termination: LogResults runs on the closed channel;
\* while an outcome is unread the loop can read it and cannot end, when the
\* closed channel is empty the loop ends at once (nothing is left to read
\* or to wait for), and after the loop every outcome of the run has been
\* read: the channel is empty and totalRelays = Executions.
C23_AggregatorTermination ==
    /\ mpc = "log" => closed
    /\ (mpc = "log" /\ ResultChan # <<>>) => (ENABLED LogRead) /\ ~(ENABLED LogEnd)
    /\ (mpc = "log" /\ ResultChan = <<>>) => (ENABLED LogEnd) /\ ~(ENABLED LogRead)
    /\ mpc = "report"
          => /\ ResultChan = <<>>
             /\ closed
             /\ agg.totalRelays = u.Executions

C23_Witness ==
    /\ mpc = "report"
    /\ u.Executions = 2
    /\ agg.totalRelays = 2
    /\ agg.failedRelays = 1
    /\ ResultChan = <<>>

\* C26 - Causal order: while the HTTP call of a job is pending the
\* outcome of that job is not on ResultChan, every outcome on the channel
\* belongs to a job that was started, and LogResults has read nothing while
\* any call is pending or any job is in flight.
C26_CausalOrder ==
    /\ \A w \in RequestPending : wloc[w].currentRelay \notin IDsOf(ResultChan)
    /\ (InPool \/ mpc \in {"returned", "finalized"})
          => IDsOf(ResultChan) = (1..counter) \ {wloc[w].currentRelay : w \in InFlight}
    /\ agg.totalRelays > 0 => InFlight = {}

C26_Witness ==
    /\ Len(ResultChan) = 1
    /\ \E w \in RequestPending : wloc[w].currentRelay = 2 /\ ResultChan[1].ID = 1

\* SendRelays has returned.
SendRelaysReturned == mpc \in {"log", "report"}

\* A worker that has its reply finds the channel open and not full, and
\* nothing is read from the channel before SendRelays has returned.
C27_SendNeverBlocks ==
    /\ \A w \in Workers : wpc[w] = "classify" => (Len(ResultChan) < ResultChanCap(u) /\ ~closed)
    /\ u.Executions >= 0 => Len(ResultChan) <= ResultChanCap(u)
    /\ ~SendRelaysReturned => agg = NoAgg

\* C27 - No deadlock without a consumer: a worker that is about to send its
\* outcome finds room in ResultChan, whose capacity is Executions, and
\* nothing is read from the channel before SendRelays has returned; under a
\* fair scheduler, when every HTTP call returns, a SendRelays called with a
\* valid pool configuration eventually returns.
C27_NoDeadlock ==
    /\ []C27_SendNeverBlocks
    /\ (mpc = "send" /\ ConfigValid) ~> SendRelaysReturned

C27_Witness ==
    /\ SendRelaysReturned
    /\ u.Executions = 2
    /\ Len(ResultChan) = ResultChanCap(u)
    /\ agg = NoAgg

\* C28 - Close after last send: ResultChan is open until the close at the
\* end of SendRelays and closed from then on, so it is closed once, on an
\* open channel; when it is closed every started worker has exited and
\* every outcome of the run has been sent, so no worker holds an outcome to
\* send on the closed channel.
C28_CloseAfterLastSend ==
    /\ closed <=> mpc \in {"log", "report"}
    /\ mpc = "finalized" => ~closed
    /\ closed
          => /\ \A w \in Workers : wpc[w] \in {"none", "done"}
             /\ Len(ResultChan) + agg.totalRelays = u.Executions
             /\ counter = u.Executions
    /\ \A w \in Workers : wpc[w] \in {"job", "http", "classify"} => ~closed

C28_Witness ==
    /\ closed
    /\ mpc = "log"
    /\ u.Executions = 2
    /\ Len(ResultChan) = 2
    /\ wpc[1] = "done"
    /\ wpc[2] = "done"

\* The workers inside the section sem <- true ... <-sem, which encloses
\* one call of jobFunc.
PermitHolders == {w \in Workers : wpc[w] \in {"job", "http", "classify", "release"}}

WellShaped(result) ==
    /\ ~result.Err => result.ErrReason = ""
    /\ result.Err => result.SuccessBody = ""

\* The job has classified its reply and returned.
JobReturned == pf.phase = "outcome"

\* C24 - Outcome shape: on every path of the job, single or batch, the job
\* sends exactly one outcome, the one it created, and sends nothing before
\* its classification; a success has an empty error reason and a failure
\* has an empty success body.
C24_OutcomeShape ==
    /\ JobReturned => ResultChan = <<pf.result>>
    /\ ~JobReturned => ResultChan = <<>>
    /\ \A j \in 1..Len(ResultChan) : WellShaped(ResultChan[j])

C24_Witness ==
    /\ JobReturned
    /\ pf.isBatch
    /\ ResultChan = <<pf.result>>
    /\ pf.result.Err
    /\ pf.result.ErrReason = NilResponseReason
    /\ pf.result.SuccessBody = ""

(***************************************************************************)
(* Properties of the histograms of LogResults (SpecHistogram).             *)
(***************************************************************************)
\* The sum of the counts of a map[string]int.
RECURSIVE SumCounts(_)
SumCounts(m) ==
    IF DOMAIN m = {} THEN 0
    ELSE LET key == CHOOSE k \in DOMAIN m : TRUE
         IN  m[key] + SumCounts([k \in DOMAIN m \ {key} |-> m[k]])

\* The outcomes read that are successes / failures.
SuccessesRead == {j \in 1..Len(Consumed) : ~Consumed[j].Err}

FailuresRead == {j \in 1..Len(Consumed) : Consumed[j].Err}

\* C25 - Histogram consistency: at every point of the aggregation, and so
\* at its end, successes + failures = total = the outcomes read; the counts
\* of successBodies sum to the successes and those of errorReasons to the
\* failures; the keys of successBodies are exactly the bodies of the
\* successes read and the count of a body is the number of successes read
\* with that very string, and likewise for errorReasons and the failures:
\* two outcomes share an entry exactly when their strings are equal, and the
\* result is a function of how many times each string arrived, not of the
\* order of arrival.
C25_HistogramConsistency ==
    /\ agg.successfulRelays + agg.failedRelays = agg.totalRelays
    /\ agg.totalRelays = Len(Consumed)
    /\ agg.successfulRelays = Cardinality(SuccessesRead)
    /\ agg.failedRelays = Cardinality(FailuresRead)
    /\ SumCounts(agg.successBodies) = agg.successfulRelays
    /\ SumCounts(agg.errorReasons) = agg.failedRelays
    /\ DOMAIN agg.successBodies = {Consumed[j].SuccessBody : j \in SuccessesRead}
    /\ DOMAIN agg.errorReasons = {Consumed[j].ErrReason : j \in FailuresRead}
    /\ \A body \in DOMAIN agg.successBodies :
          agg.successBodies[body] =
             Cardinality({j \in SuccessesRead : Consumed[j].SuccessBody = body})
    /\ \A reason \in DOMAIN agg.errorReasons :
          agg.errorReasons[reason] =
             Cardinality({j \in FailuresRead : Consumed[j].ErrReason = reason})

C25_Witness ==
    /\ Reported
    /\ agg.totalRelays = 4
    /\ Cardinality(DOMAIN agg.successBodies) = 2
    /\ \E body \in DOMAIN agg.successBodies : agg.successBodies[body] = 2
    /\ agg.failedRelays = 1
    /\ pf.results[1].Err

\* The reply is a JSON array without element.
EmptyArrayReply ==
    pf.reply.err = "" /\ pf.reply.body.t = "arr" /\ pf.reply.body.items = <<>>

\* C30 - Batch with no items: in batch mode the reply [] gives the success
\* outcome with body "[]" and the latency measured, and no reply, with or
\* without an item whose result is null, gives the failure reason "response
\* body is set to 'null'".
C30_BatchNoItems ==
    (JobReturned /\ pf.isBatch)
       => /\ EmptyArrayReply => pf.result = RelayResult(1, FALSE, "", "[]", pf.latency)
          /\ pf.result.ErrReason # NullBodyReason
          /\ pf.result.SuccessBody # "null"

C30_Witness ==
    /\ JobReturned
    /\ pf.isBatch
    /\ EmptyArrayReply
    /\ ~pf.result.Err
    /\ pf.result.SuccessBody = "[]"

(***************************************************************************)
(* Properties of the latency statistics of LogResults (SpecLog).           *)
(***************************************************************************)
\* The slice index LogResults reads for p90 in a slice of n >= 1 samples.
P90Position(n) == IF P90Index(n) = 0 THEN 0 ELSE P90Index(n) - 1

\* C31 - p90 bounds: with count >= 1 samples the slice index read for p90
\* is within 0..count-1, the p90 reported is the sample at that index of
\* the sorted samples and so one of the samples, and
\* lowestLatency <= p90Latency <= highestLatency.
C31_P90Bounds ==
    (Reported /\ Len(SamplesRead) >= 1)
       => LET count == Len(SamplesRead)
          IN  /\ 0 <= P90Position(count)
              /\ P90Position(count) < count
              /\ Len(agg.latencies) = count
              /\ agg.p90Latency = agg.latencies[P90Position(count) + 1]
              /\ \E j \in 1..count : SamplesRead[j] = agg.p90Latency
              /\ agg.lowestLatency <= agg.p90Latency
              /\ agg.p90Latency <= agg.highestLatency

C31_Witness ==
    /\ Reported
    /\ Len(SamplesRead) = 4
    /\ agg.lowestLatency < agg.p90Latency
    /\ agg.p90Latency < agg.highestLatency

\* C32 - Zero samples: when no outcome of the run is a success with a
\* non-zero latency, LogResults still reaches its report, with every
\* outcome counted, p90Latency = 0, lowestLatency = 2147483647,
\* highestLatency = -2147483648 and no sample kept (the average is 0 / 0).
C32_ZeroSamples ==
    (Reported /\ SamplesRead = <<>>)
       => /\ agg.totalRelays = Len(pf.results)
          /\ agg.latencies = <<>>
          /\ agg.p90Latency = 0
          /\ agg.lowestLatency = 2147483647
          /\ agg.highestLatency = -2147483647 - 1
          /\ agg.totalLatency = 0
          /\ agg.averageLatency.nan

C32_Witness ==
    /\ Reported
    /\ SamplesRead = <<>>
    /\ Len(pf.results) = 2
    /\ agg.failedRelays = 1
    /\ agg.successfulRelays = 1
    /\ agg.lowestLatency = 2147483647

(***************************************************************************)
(* Properties of the Portal version of the Util (SpecResolve).             *)
(***************************************************************************)
\* The answers setURLStringAndKey has consumed.
Answered == SubSeq(pf.prompts, 1, Len(pf.prompts) - Len(pf.left))

\* setURLStringAndKey has returned.
Resolved == pf.phase \in {"resolved", "request"}

\* The configured App ID was a dummy value and the user supplied a new one;
\* no override URL, not local.
DummyReplaced ==
    /\ Resolved
    /\ ContainsText(pf.configured.ID, <<"dummy">>)
    /\ Answered # <<>>
    /\ u.OverrideURL = <<>>
    /\ ~u.Local

\* C33 - Dummy App ID replacement: when the configured App ID was a dummy
\* value and the user supplied a new App ID at the prompt, then after
\* setURLStringAndKey has returned (non-local, no override URL) the URL
\* contains the App ID supplied and the secret key is the key supplied.
C33_DummyReplacement ==
    DummyReplaced
       => LET supplied == Answered[Len(Answered)]
          IN  /\ ContainsText(u.URL, supplied.ID)
              /\ u.SecretKey = supplied.Key

\* The Authorization header of a request: <<value>>, or <<>> without one.
AuthorizationOf(header) ==
    IF "Authorization" \in DOMAIN header THEN <<header["Authorization"]>> ELSE <<>>

\* C34 - Authorization override: when an authorization override value is
\* configured, the request of a job, single or batch, carries that value as
\* its Authorization header; the single and the batch construction attach
\* the same Authorization header for the same Util.
C34_AuthorizationOverride ==
    pf.phase = "request"
       => /\ u.AuthorizationOverride # ""
                => /\ AuthorizationOf(pf.single) = <<u.AuthorizationOverride>>
                   /\ AuthorizationOf(pf.batch) = <<u.AuthorizationOverride>>
          /\ AuthorizationOf(pf.single) = AuthorizationOf(pf.batch)

(***************************************************************************)
(* Properties of the setup package (SpecSetup).                            *)
(***************************************************************************)
\* C37 - Settings-file update: for any contents, key and value, the result
\* of updateEnvValue has a line exactly equal to key=value, every line of
\* the input not starting with key= is kept unchanged, and applying the
\* same update twice gives the same result as applying it once.
C37_SettingsUpdate ==
    pf.phase = "updated"
       => LET before == SplitLines(pf.contents)
              after == SplitLines(pf.once)
              entry == <<pf.key, "=">> \o pf.value
          IN  /\ \E j \in 1..Len(after) : after[j] = entry
              /\ \A i \in 1..Len(before) :
                     ~HasTextPrefix(before[i], <<pf.key, "=">>)
                        => \E j \in 1..Len(after) : after[j] = before[i]
              /\ pf.twice = pf.once

\* The lines of the file createEnvFile wrote that start with key=.
WrittenFor(key) ==
    SelectSeq(SplitLines(pf.file), LAMBDA line : HasTextPrefix(line, <<key, "=">>))

\* The answers given at prompt i (none when the prompt was not asked).
AnswersAt(i) == SelectSeq(pf.asked, LAMBDA a : a.prompt = i)

\* C36 - First-run setup: for every sequence of answers createEnvFile
\* writes each of the four required App ID keys exactly once (the value
\* entered, or its dummy value when the answer is empty), asks for a secret
\* key only when the App ID before it was entered, and writes a secret key
\* only when a non-empty value was entered for it.
C36_FirstRunSetup ==
    pf.phase = "created"
       => \A i \in 1..Len(envVarPrompts) :
             LET prompt == envVarPrompts[i]
                 written == WrittenFor(prompt.key)
                 answers == AnswersAt(i)
             IN  IF prompt.required
                 THEN /\ Len(answers) = 1
                      /\ Len(written) = 1
                      /\ written[1] = <<prompt.key, "=">>
                            \o (IF answers[1].value = <<>> THEN prompt.dummy
                                ELSE answers[1].value)
                 ELSE /\ Len(answers) <= 1
                      /\ answers # <<>> => AnswersAt(i - 1)[1].value # <<>>
                      /\ written # <<>>
                            => /\ Len(written) = 1
                               /\ answers # <<>>
                               /\ answers[1].value # <<>>
                               /\ written[1] = <<prompt.key, "=">> \o answers[1].value

\* createEnvFile has run with an App ID entered and its key left empty, an
\* App ID skipped, and an App ID entered together with its key.
C36_Witness ==
    /\ pf.phase = "created"
    /\ AnswersAt(1) # <<>> /\ AnswersAt(1)[1].value = <<"abc123">>
    /\ AnswersAt(2) # <<>> /\ AnswersAt(2)[1].value = <<>>
    /\ WrittenFor("PRODUCTION_STARTER_KEY") = <<>>
    /\ AnswersAt(3)[1].value = <<>>
    /\ AnswersAt(4) = <<>>
    /\ WrittenFor("PRODUCTION_ENTERPRISE_APP_ID")
          = << <<"PRODUCTION_ENTERPRISE_APP_ID", "=", "dummy", "_enterprise_app_id">> >>
    /\ WrittenFor("STAGING_STARTER_KEY") = << <<"STAGING_STARTER_KEY", "=", "abc123">> >>

\* The answers that are a yes, in the order typed.
YesAnswers == SelectSeq(pf.typed, LAMBDA a : TrimSpace(ToLower(a.text)) = <<"yes">>)

\* C35 - One update per prompt: a top-level call of askForEnvVarUpdate that
\* returns has performed exactly one update of the settings file (one
\* updateEnvFile call) and returns the values entered at the first yes,
\* whatever number of invalid answers precedes that yes.
C35_OneUpdatePerPrompt ==
    (pf.phase = "asked" /\ pf.status = "returned")
       => /\ pf.updates = 1
          /\ pf.appIDValue = TrimSpace(YesAnswers[1].appID)
          /\ pf.appKeyValue = TrimSpace(YesAnswers[1].appKey)

====
